---- MODULE Spec2Model ----
(***************************************************************************)
(* A model of the leaf framework core: the chanrpc Server/Client, the      *)
(* module manager, the Skeleton loop and the MongoDB session pool.         *)
(*                                                                         *)
(* Several specifications share this module.  Spec is the chanrpc fabric:  *)
(* one Server owned by one loop, one asynchronous Client owned by another  *)
(* goroutine, and a set of synchronous callers, each with a transient      *)
(* Client; SpecServer, SpecClient and SpecCb look at the server, at a      *)
(* client with several outstanding calls and at callbacks that call and    *)
(* panic.  SpecModule and SpecDestroyTwice are the module manager.         *)
(* SpecSkeleton is one Skeleton loop, SpecFacility its public operations,  *)
(* SpecMesh a registry of Skeletons that call one another, SpecMongo the   *)
(* session pool.  A specification leaves the variables of the others at    *)
(* their initial values.                                                   *)
(***************************************************************************)
EXTENDS FiniteSets, Integers, Sequences, TLC

----------------------------------------------------------------------------
(* Bounds *)

\* largest capacity of Server.ChanCall tried (0 is the unbuffered queue)
MaxChanCallLen == 1
\* largest capacity of Client.ChanAsynRet tried
MaxAsynCallLen == 1
\* number of Client.AsynCall invocations in a run
MaxAsynCalls == 2

\* the synchronous callers, one Call0/Call1/CallN each
SyncCallers == {1, 2}

\* number of Server.Register calls in a run
MaxRegisters == 2
\* the capacity of ChanAsynRet, and the largest of ChanCall, where the order
\* of several outstanding async calls is looked at
MaxClientLen == 2

----------------------------------------------------------------------------
(* Values *)

Nil == "nil"

\* function ids callers use; "nope" is never registered
RegisteredIds == {"f0", "f1", "fN"}
AllIds == RegisteredIds \cup {"nope"}

\* the three function kinds: func([]interface{}), ... interface{}, ... []interface{}
Kinds == {"K0", "K1", "KN"}

\* the function table the handlers are registered in during module init
InitFunctions == [id \in AllIds |->
                    CASE id = "f0" -> "K0"
                      [] id = "f1" -> "K1"
                      [] id = "fN" -> "KN"
                      [] OTHER -> Nil]

\* call identities: <<"a", k>> is the k-th AsynCall, <<"s", j>> the call of
\* synchronous caller j
AsynCallIds == {<<"a", k>> : k \in 1..MaxAsynCalls}
SyncCallIds == {<<"s", j>> : j \in SyncCallers}
CallIds == AsynCallIds \cup SyncCallIds

NoCall == [id |-> <<"none", 0>>, f |-> Nil, arg |-> 0, chanRet |-> Nil, cb |-> Nil]

ErrClosed == "chanrpc server closed"
ErrFull == "chanrpc channel full"
ErrTooMany == "too many calls"
ErrSendClosed == "send on closed channel"
ErrNotAttached == "server not attached"
ErrNotRegistered == "function not registered"
ErrMismatch == "return type mismatch"
ErrPanic == "handler panic"
ErrInvalid == "definition of function is invalid"
ErrRegistered == "already registered"

VARIABLES
    functions,          \* Server.functions: id -> kind, Nil when absent
    chanCallCap,        \* cap(Server.ChanCall)
    ChanCall,           \* Server.ChanCall: the buffered CallInfos
    chanCallClosed,     \* close(Server.ChanCall) has happened
    srvPc,              \* the server's loop: "loop", "exec", "drain", "closed", "crashed"
    srvCi,              \* the CallInfo Exec is running
    c_s,                \* Client.s of the asynchronous client: Nil or "srv"
    asynCap,            \* cap(Client.ChanAsynRet)
    ChanAsynRet,        \* Client.ChanAsynRet
    pendingAsynCall,    \* Client.pendingAsynCall
    cliPc,              \* the client's goroutine: "idle" or "inc" (inside AsynCall)
    nextAsyn,           \* number of AsynCall invocations so far
    syncPc,             \* per synchronous caller: "start", "sending", "waiting", "done"
    syncCi,             \* per synchronous caller: the CallInfo it sends
    chanSyncRet,        \* per synchronous caller: Client.chanSyncRet
    \* history
    enqueued,           \* calls whose send on ChanCall succeeded
    admitted,           \* async calls that passed the admission check
    replies,            \* per call: the errors of the RetInfos posted on its reply queue
    ran,                \* per call: number of times its handler was invoked
    outcome,            \* per call: what the caller got (Call's return, the callback's arguments)
    inline,             \* async calls whose callback ran inside AsynCall
    atClose,            \* calls that were in ChanCall when Close closed it
    blockedAtClose,     \* synchronous callers that were blocked sending when Close closed it
    execLog,            \* the calls Exec ran, in order
    cbLog,              \* the async calls whose callback ran, in order
    enqLog,             \* the calls whose send on ChanCall succeeded, in order
    regLog,             \* the calls of Server.Register: id, function, error
    closeCbs,           \* number of RetInfos Client.Close has dispatched
    cbRun               \* the callback Cb runs, or ran last: whether it is running,
                        \* whether the client was at capacity when Cb was called,
                        \* the number of AsynCalls made before it, whether it panicked

chanrpcVars == <<functions, chanCallCap, ChanCall, chanCallClosed, srvPc, srvCi,
                 c_s, asynCap, ChanAsynRet, pendingAsynCall, cliPc, nextAsyn,
                 syncPc, syncCi, chanSyncRet,
                 enqueued, admitted, replies, ran, outcome, inline, atClose,
                 blockedAtClose, execLog, cbLog, enqLog, regLog, closeCbs, cbRun>>

\* The module manager (package module)
VARIABLES
    numMods,            \* len(mods)
    mgrPc,              \* the manager's thread: "register", "onInit", "launch", "started",
                        \* "send", "wait", "destroy", "done", "initPanic", "destroyPanic"
    mgrK,               \* position of the manager's loop in its iteration order
    closeSig,           \* per module: number of values buffered in m.closeSig (capacity 1)
    wg,                 \* per module: the counter of m.wg
    runPc,              \* per module: "none", "running", "closing", "returned"
    \* history
    initLog,            \* the modules whose OnInit ran, in order
    destroyLog,         \* the modules whose OnDestroy was invoked, in order
    sentSig,            \* per module: number of values sent into m.closeSig
    destroyPanics,      \* the modules whose OnDestroy panicked
    destroyCalls        \* number of calls of Destroy so far

moduleVars == <<numMods, mgrPc, mgrK, closeSig, wg, runPc,
                initLog, destroyLog, sentSig, destroyPanics, destroyCalls>>

\* One Skeleton (package module, Skeleton) and what surrounds it
VARIABLES
    skPc,               \* Run: "select", "handler", "closeCmd", "closeSrv", "check",
                        \* "gClose", "cliClose", "returned"
    skBack,             \* where Run goes on when the handler it called returns
    running,            \* the handlers that are executing
    skCloseSig,         \* number of values buffered in closeSig
    inCap,              \* cap(ChanCall) of server ("rpc") and commandServer ("cmd")
    inQ,                \* per server: number of CallInfos buffered in ChanCall
    inBlocked,          \* per server: number of senders blocked on ChanCall
    inClosed,           \* whether each ChanCall was closed
    skAsynCap,          \* AsynCallLen
    skAsynRet,          \* number of RetInfos in client.ChanAsynRet
    skPending,          \* client.pendingAsynCall
    skInflight,         \* async calls the target servers have not answered yet
    skGoLen,            \* GoLen
    skJobs,             \* pool jobs whose f has not finished
    skChanCb,           \* number of callbacks in g.ChanCb
    skTimerLen,         \* TimerDispatcherLen
    skChanTimer,        \* number of fired timers in dispatcher.ChanTimer
    \* history
    gotClose,           \* Run has received closeSig
    work,               \* number of pieces of work given to the Skeleton so far
    ranKinds,           \* the kinds of handler Run has called
    lateExec,           \* Run has called an RPC or command handler after closeSig
    lateCbs,            \* number of callbacks Run has called after closeSig
    skPosted,           \* per server: the errors of the RetInfos posted to its callers
    skChanRPCServer,    \* ChanRPCServer: Nil or "srv"
    skConf,             \* the lengths the Skeleton was given before Init
    skCalls             \* the public operations called so far, each with its outcome

skelVars == <<skPc, skBack, running, skCloseSig, inCap, inQ, inBlocked, inClosed,
              skAsynCap, skAsynRet, skPending, skInflight, skGoLen, skJobs, skChanCb,
              skTimerLen, skChanTimer,
              gotClose, work, ranKinds, lateExec, lateCbs, skPosted,
              skChanRPCServer, skConf, skCalls>>

\* The MongoDB session pool (package mongodb)
VARIABLES
    sessions,           \* DialContext.sessions: position -> Session (id, ref, index)
    refRet              \* the session the last Ref returned, 0 before the first

mongoVars == <<sessions, refRet>>

\* A registry of Skeleton modules that call one another
VARIABLES
    mPc,                \* per module, Run: "select", "closeSrv", "drain", "teardown",
                        \* "cliClose", "returned"
    mCallCap,           \* per module: cap(server.ChanCall)
    mQ,                 \* per module: the callers of the calls buffered in server.ChanCall
    mExec,              \* per module: the caller of the call Exec is running, 0 when none
    mClosed,            \* per module: server.ChanCall is closed
    mAsynRet,           \* per module: number of RetInfos in client.ChanAsynRet
    mPending,           \* per module: client.pendingAsynCall
    mIssued,            \* per module: number of AsynCalls made so far
    \* history
    mAnswers,           \* per module: how its async calls were answered
    mAtClose            \* per module: its counter when its Run received closeSig, -1 before

meshVars == <<mPc, mCallCap, mQ, mExec, mClosed, mAsynRet, mPending, mIssued,
              mAnswers, mAtClose>>

vars == <<chanrpcVars, moduleVars, skelVars, mongoVars, meshVars>>

NoOutcome == [ret |-> <<>>, err |-> "none"]

----------------------------------------------------------------------------
(* chanrpc: pure parts *)

\* a handler panics on argument 0 (the "div" handler of the spec's scenario)
HandlerPanics(ci) == ci.arg = 0

\* what a handler of each kind returns: nothing, one value, a vector
Handler(ci) ==
    CASE ci.f = "K0" -> <<>>
      [] ci.f = "K1" -> <<2 * ci.arg>>
      [] ci.f = "KN" -> <<ci.arg, ci.arg + 1>>

\* a ret that sends the error and the callback but not the value
ret_noValue(ci, ri) ==
    IF ci.chanRet = Nil THEN <<>>
    ELSE <<[id |-> ci.id, ret |-> <<>>, err |-> ri.err, cb |-> ci.cb]>>

\* Server.ret: the RetInfos sent on ci.chanRet
ret(ci, ri) ==
    IF ci.chanRet = Nil THEN <<>>
    ELSE <<[id |-> ci.id, ret |-> ri.ret, err |-> ri.err, cb |-> ci.cb]>>

\* exec whose recovery does not answer the call
exec_noReplyOnPanic(ci) ==
    IF ci.f \notin Kinds \/ HandlerPanics(ci)
    THEN [post |-> <<>>, escaped |-> FALSE]
    ELSE [post |-> ret(ci, [ret |-> Handler(ci), err |-> Nil]), escaped |-> FALSE]

\* exec without its deferred recover
exec_noRecover(ci) ==
    IF ci.f \notin Kinds \/ HandlerPanics(ci)
    THEN [post |-> <<>>, escaped |-> TRUE]
    ELSE [post |-> ret(ci, [ret |-> Handler(ci), err |-> Nil]), escaped |-> FALSE]

\* Server.exec: run the handler; a panic (of the handler, or the "bug" panic
\* for a function of no kind) is recovered and answered with the panic
\* value, a normal return with the handler's result.  post: the RetInfos
\* sent; escaped: the panic leaves exec.
exec(ci) ==
    IF ci.f \notin Kinds \/ HandlerPanics(ci)
    THEN [post |-> ret(ci, [ret |-> <<>>, err |-> ErrPanic]), escaped |-> FALSE]
    ELSE [post |-> ret(ci, [ret |-> Handler(ci), err |-> Nil]), escaped |-> FALSE]

\* a Close that discards the queued calls without answering them
closeRet_dropped(ci) == <<>>

\* Server.Close, per drained call: the RetInfos sent
closeRet(ci) == ret(ci, [ret |-> <<>>, err |-> ErrClosed])

\* a lookup that does not compare the kind with the call variant
f_noKindCheck(s, id, n) ==
    IF s = Nil THEN [f |-> Nil, err |-> ErrNotAttached]
    ELSE IF functions[id] = Nil THEN [f |-> Nil, err |-> ErrNotRegistered]
    ELSE [f |-> functions[id], err |-> Nil]

\* Client.f: the function and the error of the lookup
f(s, id, n) ==
    IF s = Nil THEN [f |-> Nil, err |-> ErrNotAttached]
    ELSE IF functions[id] = Nil THEN [f |-> Nil, err |-> ErrNotRegistered]
    ELSE IF functions[id] # (CASE n = 0 -> "K0" [] n = 1 -> "K1" [] n = 2 -> "KN")
         THEN [f |-> functions[id], err |-> ErrMismatch]
    ELSE [f |-> functions[id], err |-> Nil]

\* the admission check off by one
tooManyCalls_gt(pending, capacity) == pending > capacity

\* Client.AsynCall's admission check
tooManyCalls(pending, capacity) == pending >= capacity

\* execCb: the arguments the callback of shape n gets
execCb(ri) ==
    CASE ri.cb = 0 -> [ret |-> <<>>, err |-> ri.err]
      [] ri.cb = 1 -> [ret |-> ri.ret, err |-> ri.err]
      [] ri.cb = 2 -> [ret |-> ri.ret, err |-> ri.err]

\* Client.Idle
Idle(pending) == pending = 0

\* a Close that leaves the last outstanding reply behind
closeLoops_gt1(pending) == pending > 1

\* Client.Close: the condition of `for c.pendingAsynCall > 0`
closeLoops(pending) == pending > 0

\* a Register that stores the function before it looks for the id
register_overwrite(fs, id, fdef) ==
    IF fdef \notin Kinds THEN [functions |-> fs, err |-> ErrInvalid]
    ELSE IF fs[id] # Nil THEN [functions |-> [fs EXCEPT ![id] = fdef], err |-> ErrRegistered]
    ELSE [functions |-> [fs EXCEPT ![id] = fdef], err |-> Nil]

\* Server.Register: the function table it leaves and the message of its
\* panic (Nil when it returns)
register(fs, id, fdef) ==
    IF fdef \notin Kinds THEN [functions |-> fs, err |-> ErrInvalid]
    ELSE IF fs[id] # Nil THEN [functions |-> fs, err |-> ErrRegistered]
    ELSE [functions |-> [fs EXCEPT ![id] = fdef], err |-> Nil]

\* where a sender is once its send on ChanCall has succeeded: Server.Go has
\* returned, Call0 / Call1 / CallN wait for the reply
sent(ci) == IF ci.chanRet = Nil THEN "done" ELSE "waiting"

\* a Server.Go without its deferred recover
sendClosed_goPanics(ci) ==
    IF ci.chanRet = Nil THEN [pc |-> "panicked", err |-> Nil]
    ELSE [pc |-> "done", err |-> ErrSendClosed]

\* what the sender of ci gets when its send panics on the closed queue:
\* Server.Go recovers the panic and returns, Client.call recovers it into
\* the error its caller returns
sendClosed(ci) ==
    IF ci.chanRet = Nil THEN [pc |-> "done", err |-> Nil]
    ELSE [pc |-> "done", err |-> ErrSendClosed]

----------------------------------------------------------------------------
(* chanrpc: the server's loop *)

\* the callers blocked in `c.s.ChanCall <- ci` or, in Go, `s.ChanCall <- ...`
Blocked == {j \in SyncCallers : syncPc[j] = "sending"}

\* `ci.chanRet <- ri` for each of ris: a blocking send on the reply queue of ci
Post(ci, ris) ==
    /\ replies' = IF ris = <<>> THEN replies
                  ELSE [replies EXCEPT ![ci.id] = @ \o [i \in 1..Len(ris) |-> ris[i].err]]
    /\ IF ris = <<>> THEN UNCHANGED <<chanSyncRet, ChanAsynRet>>
       ELSE IF ci.chanRet = "sync"
       THEN /\ Len(chanSyncRet[ci.id[2]]) + Len(ris) <= 1
            /\ chanSyncRet' = [chanSyncRet EXCEPT ![ci.id[2]] = @ \o ris]
            /\ UNCHANGED ChanAsynRet
       ELSE /\ Len(ChanAsynRet) + Len(ris) <= asynCap
            /\ ChanAsynRet' = ChanAsynRet \o ris
            /\ UNCHANGED chanSyncRet

\* `ci := <-s.ChanCall` in the loop that owns the server: the head of the
\* buffer (a blocked sender then moves its CallInfo into the free slot), or,
\* on an empty buffer, the CallInfo of a blocked sender directly
SrvRecv ==
    /\ srvPc = "loop"
    /\ ~chanCallClosed
    /\ \/ /\ ChanCall # <<>>
          /\ srvCi' = Head(ChanCall)
          /\ IF Blocked = {}
             THEN /\ ChanCall' = Tail(ChanCall)
                  /\ UNCHANGED <<syncPc, enqueued, enqLog>>
             ELSE \E j \in Blocked :
                    /\ ChanCall' = Append(Tail(ChanCall), syncCi[j])
                    /\ syncPc' = [syncPc EXCEPT ![j] = sent(syncCi[j])]
                    /\ enqueued' = enqueued \cup {<<"s", j>>} /\ enqLog' = Append(enqLog, <<"s", j>>)
       \/ /\ ChanCall = <<>>
          /\ \E j \in Blocked :
                /\ srvCi' = syncCi[j]
                /\ syncPc' = [syncPc EXCEPT ![j] = sent(syncCi[j])]
                /\ enqueued' = enqueued \cup {<<"s", j>>} /\ enqLog' = Append(enqLog, <<"s", j>>)
          /\ UNCHANGED ChanCall
    /\ srvPc' = "exec"
    /\ UNCHANGED <<functions, chanCallCap, chanCallClosed, c_s, asynCap, ChanAsynRet,
                   pendingAsynCall, cliPc, nextAsyn, syncCi, chanSyncRet,
                   admitted, replies, ran, outcome, inline, atClose,
                   blockedAtClose, execLog, cbLog,
                   regLog, closeCbs, cbRun, moduleVars, skelVars, mongoVars, meshVars>>

\* Server.Exec(ci): the handler runs and the RetInfo is posted
SrvExec ==
    /\ srvPc = "exec"
    /\ LET r == exec(srvCi) IN
        /\ Post(srvCi, r.post)
        /\ srvPc' = IF r.escaped THEN "crashed" ELSE "loop"
    /\ ran' = [ran EXCEPT ![srvCi.id] = @ + 1]
    /\ srvCi' = NoCall
    /\ UNCHANGED <<functions, chanCallCap, ChanCall, chanCallClosed, c_s, asynCap,
                   pendingAsynCall, cliPc, nextAsyn, syncPc, syncCi,
                   enqueued, enqLog, admitted, outcome, inline, atClose,
                   blockedAtClose, cbLog,
                   regLog, closeCbs, cbRun, moduleVars, skelVars, mongoVars, meshVars>>
    /\ execLog' = Append(execLog, srvCi.id)

\* Server.Close, first statement: close(s.ChanCall).  Every sender blocked on
\* the queue panics with "send on closed channel", which Client.call recovers
\* and returns.
SrvClose ==
    /\ srvPc = "loop"
    /\ ~chanCallClosed
    /\ chanCallClosed' = TRUE
    /\ atClose' = {ChanCall[i].id : i \in 1..Len(ChanCall)}
    /\ syncPc' = [j \in SyncCallers |->
                    IF j \in Blocked THEN sendClosed(syncCi[j]).pc ELSE syncPc[j]]
    /\ outcome' = [c \in CallIds |->
                     IF c[1] = "s" /\ c[2] \in Blocked /\ sendClosed(syncCi[c[2]]).err # Nil
                     THEN [ret |-> <<>>, err |-> sendClosed(syncCi[c[2]]).err]
                     ELSE outcome[c]]
    /\ srvPc' = IF ChanCall = <<>> THEN "closed" ELSE "drain"
    /\ UNCHANGED <<functions, chanCallCap, ChanCall, srvCi, c_s, asynCap, ChanAsynRet,
                   pendingAsynCall, cliPc, nextAsyn, syncCi, chanSyncRet,
                   enqueued, enqLog, admitted, replies, ran, inline,
                   execLog, cbLog,
                   regLog, closeCbs, cbRun, moduleVars, skelVars, mongoVars, meshVars>>
    /\ blockedAtClose' = Blocked

\* Server.Close, one iteration of `for ci := range s.ChanCall`
SrvDrain ==
    /\ srvPc = "drain"
    /\ Post(Head(ChanCall), closeRet(Head(ChanCall)))
    /\ ChanCall' = Tail(ChanCall)
    /\ srvPc' = IF Tail(ChanCall) = <<>> THEN "closed" ELSE "drain"
    /\ UNCHANGED <<functions, chanCallCap, chanCallClosed, srvCi, c_s, asynCap,
                   pendingAsynCall, cliPc, nextAsyn, syncPc, syncCi,
                   enqueued, enqLog, admitted, ran, outcome, inline, atClose,
                   blockedAtClose, execLog, cbLog,
                   regLog, closeCbs, cbRun, moduleVars, skelVars, mongoVars, meshVars>>

----------------------------------------------------------------------------
(* chanrpc: synchronous callers *)

\* the calls the callers make: <<server the client is attached to, id, n, argument>>
\* where n = 0, 1, 2 stands for Call0, Call1, CallN (and for the three callback shapes)
CallInputs ==
    { <<"srv", "f0", 0, 1>>,      \* a K0 handler
      <<"srv", "f1", 1, 1>>,      \* a K1 handler
      <<"srv", "f1", 1, 0>>,      \* a K1 handler that panics
      <<"srv", "fN", 2, 1>>,      \* a KN handler
      <<"srv", "nope", 0, 1>>,    \* an id that is not registered
      <<"srv", "f1", 1, 2>>,      \* a K1 handler, another argument
      <<"srv", "f1", 0, 1>>,      \* a kind mismatch: Call0 of a K1 handler
      <<"srv", "f0", 1, 1>>,      \* a kind mismatch: Call1 of a K0 handler
      <<"srv", "f1", 2, 1>>,      \* a kind mismatch: CallN of a K1 handler
      <<Nil, "f0", 0, 1>> }       \* a client without a server

\* the calls of Server.Go: <<id, argument>>
GoInputs == { <<"f1", 1>>, <<"f1", 0>>, <<"nope", 1>> }

\* the calls of Server.Register: <<id, function>>, "bad" a function of none
\* of the three kinds
RegisterInputs == { <<id, fdef>> : id \in {"f1", "nope"}, fdef \in {"K0", "K1", "bad"} }

\* the calls tried under Spec
SyncInputs == { <<"srv", "f1", 1, 1>>, <<"srv", "f1", 1, 0>> }
AsynInputs == { <<"srv", "f1", 1, 1>>, <<"srv", "f1", 1, 0>>, <<"srv", "nope", 0, 1>> }

\* Client.Call0 / Call1 / CallN up to the blocking send of Client.call
SyncCall(j, in) ==
    /\ syncPc[j] = "start"
    /\ LET r == f(in[1], in[2], in[3])
           ci == [id |-> <<"s", j>>, f |-> r.f, arg |-> in[4], chanRet |-> "sync", cb |-> in[3]]
       IN
        IF r.err # Nil
        THEN /\ syncPc' = [syncPc EXCEPT ![j] = "done"]
             /\ outcome' = [outcome EXCEPT ![<<"s", j>>] = [ret |-> <<>>, err |-> r.err]]
             /\ UNCHANGED <<ChanCall, syncCi, enqueued, enqLog>>
        ELSE IF chanCallClosed
        THEN /\ syncPc' = [syncPc EXCEPT ![j] = "done"]
             /\ outcome' = [outcome EXCEPT ![<<"s", j>>] = [ret |-> <<>>, err |-> ErrSendClosed]]
             /\ UNCHANGED <<ChanCall, syncCi, enqueued, enqLog>>
        ELSE IF Len(ChanCall) < chanCallCap
        THEN /\ ChanCall' = Append(ChanCall, ci)
             /\ syncPc' = [syncPc EXCEPT ![j] = "waiting"]
             /\ syncCi' = [syncCi EXCEPT ![j] = ci]
             /\ enqueued' = enqueued \cup {<<"s", j>>} /\ enqLog' = Append(enqLog, <<"s", j>>)
             /\ UNCHANGED outcome
        ELSE /\ syncPc' = [syncPc EXCEPT ![j] = "sending"]
             /\ syncCi' = [syncCi EXCEPT ![j] = ci]
             /\ UNCHANGED <<ChanCall, enqueued, enqLog, outcome>>
    /\ UNCHANGED <<functions, chanCallCap, chanCallClosed, srvPc, srvCi, c_s, asynCap,
                   ChanAsynRet, pendingAsynCall, cliPc, nextAsyn, chanSyncRet,
                   admitted, replies, ran, inline, atClose,
                   blockedAtClose, execLog, cbLog,
                   regLog, closeCbs, cbRun, moduleVars, skelVars, mongoVars, meshVars>>

\* `ri := <-c.chanSyncRet` and the return of Call0 / Call1 / CallN
SyncReturn(j) ==
    /\ syncPc[j] = "waiting"
    /\ chanSyncRet[j] # <<>>
    /\ LET ri == Head(chanSyncRet[j]) IN
        outcome' = [outcome EXCEPT ![<<"s", j>>] =
                       IF syncCi[j].cb = 0 THEN [ret |-> <<>>, err |-> ri.err]
                       ELSE [ret |-> ri.ret, err |-> ri.err]]
    /\ chanSyncRet' = [chanSyncRet EXCEPT ![j] = Tail(@)]
    /\ syncPc' = [syncPc EXCEPT ![j] = "done"]
    /\ UNCHANGED <<functions, chanCallCap, ChanCall, chanCallClosed, srvPc, srvCi, c_s,
                   asynCap, ChanAsynRet, pendingAsynCall, cliPc, nextAsyn, syncCi,
                   enqueued, enqLog, admitted, replies, ran, inline, atClose,
                   blockedAtClose, execLog, cbLog,
                   regLog, closeCbs, cbRun, moduleVars, skelVars, mongoVars, meshVars>>

\* Server.Go(id, args) by caller j: the lookup and the blocking send of a
\* CallInfo without reply queue
ServerGo(j, in) ==
    /\ syncPc[j] = "start"
    /\ LET fn == functions[in[1]]
           ci == [id |-> <<"s", j>>, f |-> fn, arg |-> in[2], chanRet |-> Nil, cb |-> Nil]
       IN
        IF fn = Nil
        THEN /\ syncPc' = [syncPc EXCEPT ![j] = "done"]
             /\ UNCHANGED <<ChanCall, syncCi, enqueued, enqLog>>
        ELSE /\ syncCi' = [syncCi EXCEPT ![j] = ci]
             /\ IF chanCallClosed
                THEN /\ syncPc' = [syncPc EXCEPT ![j] = sendClosed(ci).pc]
                     /\ UNCHANGED <<ChanCall, enqueued, enqLog>>
                ELSE IF Len(ChanCall) < chanCallCap
                THEN /\ ChanCall' = Append(ChanCall, ci)
                     /\ syncPc' = [syncPc EXCEPT ![j] = sent(ci)]
                     /\ enqueued' = enqueued \cup {<<"s", j>>}
                     /\ enqLog' = Append(enqLog, <<"s", j>>)
                ELSE /\ syncPc' = [syncPc EXCEPT ![j] = "sending"]
                     /\ UNCHANGED <<ChanCall, enqueued, enqLog>>
    /\ UNCHANGED <<functions, chanCallCap, chanCallClosed, srvPc, srvCi, c_s, asynCap,
                   ChanAsynRet, pendingAsynCall, cliPc, nextAsyn, chanSyncRet,
                   admitted, replies, ran, outcome, inline, atClose,
                   blockedAtClose, execLog, cbLog,
                   regLog, closeCbs, cbRun, moduleVars, skelVars, mongoVars, meshVars>>

\* Server.Register(id, f), called by the goroutine that owns the server
ServerRegister(in) ==
    /\ srvPc = "loop"
    /\ Len(regLog) < MaxRegisters
    /\ LET r == register(functions, in[1], in[2]) IN
        /\ functions' = r.functions
        /\ regLog' = Append(regLog, [id |-> in[1], f |-> in[2], err |-> r.err])
    /\ UNCHANGED <<chanCallCap, ChanCall, chanCallClosed, srvPc, srvCi, c_s, asynCap,
                   ChanAsynRet, pendingAsynCall, cliPc, nextAsyn, syncPc, syncCi,
                   chanSyncRet, enqueued, enqLog, admitted, replies, ran, outcome,
                   inline, atClose, blockedAtClose, execLog, cbLog,
                   closeCbs, cbRun, moduleVars, skelVars, mongoVars, meshVars>>

----------------------------------------------------------------------------
(* chanrpc: the asynchronous client *)

\* an asynCall that returns without pushing the synthetic reply
PushSynthetic_dropped(cid, n, err) ==
    UNCHANGED <<ChanAsynRet, ChanCall, srvPc, srvCi, enqueued, enqLog>>

\* the synthetic reply asynCall pushes on the client's own ChanAsynRet
\* (a blocking send)
PushSynthetic(cid, n, err) ==
    /\ Len(ChanAsynRet) < asynCap
    /\ ChanAsynRet' = Append(ChanAsynRet, [id |-> cid, ret |-> <<>>, err |-> err, cb |-> n])
    /\ UNCHANGED <<ChanCall, srvPc, srvCi, enqueued, enqLog>>

\* Skeleton.AsynCall(server, id, args, cb): Client.Attach(server), then
\* Client.AsynCall up to the return of asynCall: the admission check, the
\* lookup of f and the non-blocking send of Client.call.  An input without
\* a server is Client.AsynCall on the client as it is.
AsynCall(in) ==
    /\ cliPc = "idle"
    /\ nextAsyn < MaxAsynCalls
    /\ nextAsyn' = nextAsyn + 1
    /\ c_s' = IF in[1] = Nil THEN c_s ELSE in[1]
    /\ LET cid == <<"a", nextAsyn + 1>>
           r == f(c_s', in[2], in[3])
           ci == [id |-> cid, f |-> r.f, arg |-> in[4], chanRet |-> "asyn", cb |-> in[3]]
       IN
        IF tooManyCalls(pendingAsynCall, asynCap)
        THEN /\ outcome' = [outcome EXCEPT ![cid] =
                               execCb([id |-> cid, ret |-> <<>>, err |-> ErrTooMany, cb |-> in[3]])]
             /\ inline' = inline \cup {cid}
             /\ cbLog' = Append(cbLog, cid)
             /\ UNCHANGED <<ChanCall, ChanAsynRet, srvPc, srvCi, enqueued, enqLog, admitted, cliPc>>
        ELSE /\ admitted' = admitted \cup {cid}
             /\ cliPc' = "inc"
             /\ UNCHANGED <<outcome, inline, cbLog>>
             /\ IF r.err # Nil THEN PushSynthetic(cid, in[3], r.err)
                ELSE IF chanCallClosed THEN PushSynthetic(cid, in[3], ErrSendClosed)
                ELSE IF Len(ChanCall) < chanCallCap
                THEN /\ ChanCall' = Append(ChanCall, ci)
                     /\ enqueued' = enqueued \cup {cid} /\ enqLog' = Append(enqLog, cid)
                     /\ UNCHANGED <<ChanAsynRet, srvPc, srvCi>>
                ELSE \/ PushSynthetic(cid, in[3], ErrFull)
                     \/ \* an unbuffered queue whose reader is parked in its select
                        /\ chanCallCap = 0
                        /\ srvPc = "loop"
                        /\ srvPc' = "exec"
                        /\ srvCi' = ci
                        /\ enqueued' = enqueued \cup {cid} /\ enqLog' = Append(enqLog, cid)
                        /\ UNCHANGED <<ChanCall, ChanAsynRet>>
    /\ UNCHANGED <<functions, chanCallCap, chanCallClosed, asynCap, pendingAsynCall,
                   syncPc, syncCi, chanSyncRet, replies, ran, atClose,
                   blockedAtClose, execLog,
                   regLog, closeCbs, cbRun, moduleVars, skelVars, mongoVars, meshVars>>

\* an AsynCall that counts only the calls it enqueued on the server
AsynCallInc_enqueuedOnly ==
    /\ cliPc = "inc"
    /\ pendingAsynCall' = IF <<"a", nextAsyn>> \in enqueued
                          THEN pendingAsynCall + 1 ELSE pendingAsynCall
    /\ cliPc' = "idle"
    /\ UNCHANGED <<functions, chanCallCap, ChanCall, chanCallClosed, srvPc, srvCi, c_s,
                   asynCap, ChanAsynRet, nextAsyn, syncPc, syncCi, chanSyncRet,
                   enqueued, enqLog, admitted, replies, ran, outcome, inline, atClose,
                   blockedAtClose, execLog, cbLog,
                   regLog, closeCbs, cbRun, moduleVars, skelVars, mongoVars, meshVars>>

\* Client.AsynCall, last statement: c.pendingAsynCall++
AsynCallInc ==
    /\ cliPc = "inc"
    /\ pendingAsynCall' = pendingAsynCall + 1
    /\ cliPc' = "idle"
    /\ UNCHANGED <<functions, chanCallCap, ChanCall, chanCallClosed, srvPc, srvCi, c_s,
                   asynCap, ChanAsynRet, nextAsyn, syncPc, syncCi, chanSyncRet,
                   enqueued, enqLog, admitted, replies, ran, outcome, inline, atClose,
                   blockedAtClose, execLog, cbLog,
                   regLog, closeCbs, cbRun, moduleVars, skelVars, mongoVars, meshVars>>

\* a client that takes the newest RetInfo of its queue
ClientCb_last ==
    /\ cliPc = "idle"
    /\ ChanAsynRet # <<>>
    /\ pendingAsynCall' = pendingAsynCall - 1
    /\ outcome' = [outcome EXCEPT ![ChanAsynRet[Len(ChanAsynRet)].id] =
                                      execCb(ChanAsynRet[Len(ChanAsynRet)])]
    /\ ChanAsynRet' = SubSeq(ChanAsynRet, 1, Len(ChanAsynRet) - 1)
    /\ cbLog' = Append(cbLog, ChanAsynRet[Len(ChanAsynRet)].id)
    /\ UNCHANGED <<functions, chanCallCap, ChanCall, chanCallClosed, srvPc, srvCi, c_s,
                   asynCap, cliPc, nextAsyn, syncPc, syncCi, chanSyncRet,
                   enqueued, enqLog, admitted, replies, ran, inline, atClose,
                   blockedAtClose, execLog,
                   regLog, closeCbs, cbRun, moduleVars, skelVars, mongoVars, meshVars>>

\* `ri := <-c.ChanAsynRet; c.Cb(ri)` on the client's goroutine
ClientCb ==
    /\ cliPc = "idle"
    /\ ChanAsynRet # <<>>
    /\ pendingAsynCall' = pendingAsynCall - 1
    /\ outcome' = [outcome EXCEPT ![Head(ChanAsynRet).id] = execCb(Head(ChanAsynRet))]
    /\ ChanAsynRet' = Tail(ChanAsynRet)
    /\ UNCHANGED <<functions, chanCallCap, ChanCall, chanCallClosed, srvPc, srvCi, c_s,
                   asynCap, cliPc, nextAsyn, syncPc, syncCi, chanSyncRet,
                   enqueued, enqLog, admitted, replies, ran, inline, atClose,
                   blockedAtClose, execLog,
                   regLog, closeCbs, cbRun, moduleVars, skelVars, mongoVars, meshVars>>
    /\ cbLog' = Append(cbLog, Head(ChanAsynRet).id)

\* a Cb that runs the callback first and decrements afterwards
Cb_decrementAfter == [before |-> 0, after |-> 1]

\* Client.Cb: what it takes from the counter before and after execCb(ri)
Cb == [before |-> 1, after |-> 0]

\* execCb: the deferred recover() catches the panic of the callback
recoverCb(panics) == [escaped |-> FALSE]

\* Client.Cb(<-ChanAsynRet) up to the call of the callback: the decrement,
\* then execCb calls ri.cb with the arguments of its shape
CbStart ==
    /\ cliPc = "idle"
    /\ ~cbRun.running
    /\ ChanAsynRet # <<>>
    /\ pendingAsynCall' = pendingAsynCall - Cb.before
    /\ outcome' = [outcome EXCEPT ![Head(ChanAsynRet).id] = execCb(Head(ChanAsynRet))]
    /\ ChanAsynRet' = Tail(ChanAsynRet)
    /\ cbLog' = Append(cbLog, Head(ChanAsynRet).id)
    /\ cbRun' = [running |-> TRUE, atCap |-> tooManyCalls(pendingAsynCall, asynCap),
                 next |-> nextAsyn, panicked |-> FALSE]
    /\ UNCHANGED <<functions, chanCallCap, ChanCall, chanCallClosed, srvPc, srvCi, c_s,
                   asynCap, cliPc, nextAsyn, syncPc, syncCi, chanSyncRet,
                   enqueued, enqLog, admitted, replies, ran, inline, atClose,
                   blockedAtClose, execLog,
                   regLog, closeCbs, moduleVars, skelVars, mongoVars, meshVars>>

\* the callback returns or panics, execCb returns, Cb returns
CbReturn(panics) ==
    /\ cliPc = "idle"
    /\ cbRun.running
    /\ pendingAsynCall' = pendingAsynCall - Cb.after
    /\ cliPc' = IF recoverCb(panics).escaped THEN "cbPanic" ELSE cliPc
    /\ cbRun' = [cbRun EXCEPT !.running = FALSE, !.panicked = panics]
    /\ UNCHANGED <<functions, chanCallCap, ChanCall, chanCallClosed, srvPc, srvCi, c_s,
                   asynCap, ChanAsynRet, nextAsyn, syncPc, syncCi, chanSyncRet,
                   enqueued, enqLog, admitted, replies, ran, outcome, inline, atClose,
                   blockedAtClose, execLog, cbLog,
                   regLog, closeCbs, moduleVars, skelVars, mongoVars, meshVars>>

\* Client.Close is called
ClientCloseStart ==
    /\ cliPc = "idle"
    /\ cliPc' = "closing"
    /\ UNCHANGED <<functions, chanCallCap, ChanCall, chanCallClosed, srvPc, srvCi, c_s,
                   asynCap, ChanAsynRet, pendingAsynCall, nextAsyn, syncPc, syncCi,
                   chanSyncRet, enqueued, enqLog, admitted, replies, ran, outcome,
                   inline, atClose, blockedAtClose, execLog, cbLog,
                   regLog, closeCbs, cbRun, moduleVars, skelVars, mongoVars, meshVars>>

\* Client.Close, one iteration: `c.Cb(<-c.ChanAsynRet)`
ClientCloseStep ==
    /\ cliPc = "closing"
    /\ closeLoops(pendingAsynCall)
    /\ ChanAsynRet # <<>>
    /\ pendingAsynCall' = pendingAsynCall - 1
    /\ outcome' = [outcome EXCEPT ![Head(ChanAsynRet).id] = execCb(Head(ChanAsynRet))]
    /\ ChanAsynRet' = Tail(ChanAsynRet)
    /\ cbLog' = Append(cbLog, Head(ChanAsynRet).id)
    /\ closeCbs' = closeCbs + 1
    /\ UNCHANGED <<functions, chanCallCap, ChanCall, chanCallClosed, srvPc, srvCi, c_s,
                   asynCap, cliPc, nextAsyn, syncPc, syncCi, chanSyncRet,
                   enqueued, enqLog, admitted, replies, ran, inline, atClose,
                   blockedAtClose, execLog,
                   regLog, cbRun, moduleVars, skelVars, mongoVars, meshVars>>

\* Client.Close returns
ClientCloseReturn ==
    /\ cliPc = "closing"
    /\ ~closeLoops(pendingAsynCall)
    /\ cliPc' = "closed"
    /\ UNCHANGED <<functions, chanCallCap, ChanCall, chanCallClosed, srvPc, srvCi, c_s,
                   asynCap, ChanAsynRet, pendingAsynCall, nextAsyn, syncPc, syncCi,
                   chanSyncRet, enqueued, enqLog, admitted, replies, ran, outcome,
                   inline, atClose, blockedAtClose, execLog, cbLog,
                   regLog, closeCbs, cbRun, moduleVars, skelVars, mongoVars, meshVars>>

----------------------------------------------------------------------------
(* The module manager *)

\* largest number of registered modules
MaxModules == 3

Modules == 1..MaxModules

\* number of calls of Destroy tried
MaxDestroys == 2

\* an Init that walks the registry backwards
InitOrder_backward(n) == [k \in 1..n |-> n - k + 1]

\* a Destroy that walks the registry forwards
DestroyOrder_forward(n) == [k \in 1..n |-> k]

\* Destroy: `for i := len(mods) - 1; i >= 0; i--`, as the modules it visits
DestroyOrder(n) == [k \in 1..n |-> n - k + 1]

\* Init: `for i := 0; i < len(mods); i++`
InitOrder(n) == [k \in 1..n |-> k]

\* a destroy without its deferred recover
destroy_noRecover(panics) == [invoked |-> TRUE, escaped |-> panics]

\* destroy(m): OnDestroy is invoked; its panic is recovered and logged
destroy(panics) == [invoked |-> TRUE, escaped |-> FALSE]

\* Register(mi)
Register ==
    /\ mgrPc = "register"
    /\ numMods < MaxModules
    /\ numMods' = numMods + 1
    /\ UNCHANGED <<mgrPc, mgrK, closeSig, wg, runPc, initLog, destroyLog, sentSig,
                   destroyPanics, destroyCalls, chanrpcVars, skelVars, mongoVars, meshVars>>

\* Init is called
InitStart ==
    /\ mgrPc = "register"
    /\ mgrPc' = IF numMods = 0 THEN "started" ELSE "onInit"
    /\ mgrK' = 1
    /\ UNCHANGED <<numMods, closeSig, wg, runPc, initLog, destroyLog, sentSig,
                   destroyPanics, destroyCalls, chanrpcVars, skelVars, mongoVars, meshVars>>

\* Init, first loop: mods[i].mi.OnInit(), whose panic leaves Init
OnInit(panics) ==
    /\ mgrPc = "onInit"
    /\ initLog' = Append(initLog, InitOrder(numMods)[mgrK])
    /\ IF panics
       THEN mgrPc' = "initPanic" /\ UNCHANGED mgrK
       ELSE IF mgrK < numMods
       THEN mgrK' = mgrK + 1 /\ UNCHANGED mgrPc
       ELSE mgrK' = 1 /\ mgrPc' = "launch"
    /\ UNCHANGED <<numMods, closeSig, wg, runPc, destroyLog, sentSig,
                   destroyPanics, destroyCalls, chanrpcVars, skelVars, mongoVars, meshVars>>

\* Init, second loop: m.wg.Add(1); go run(m)
Launch ==
    /\ mgrPc = "launch"
    /\ LET i == InitOrder(numMods)[mgrK] IN
        /\ wg' = [wg EXCEPT ![i] = @ + 1]
        /\ runPc' = [runPc EXCEPT ![i] = "running"]
    /\ IF mgrK < numMods
       THEN mgrK' = mgrK + 1 /\ UNCHANGED mgrPc
       ELSE mgrK' = 1 /\ mgrPc' = "started"
    /\ UNCHANGED <<numMods, closeSig, initLog, destroyLog, sentSig,
                   destroyPanics, destroyCalls, chanrpcVars, skelVars, mongoVars, meshVars>>

\* Destroy is called
DestroyStart ==
    /\ mgrPc = "started"
    /\ mgrPc' = IF numMods = 0 THEN "done" ELSE "send"
    /\ mgrK' = 1
    /\ destroyCalls' = destroyCalls + 1
    /\ UNCHANGED <<numMods, closeSig, wg, runPc, initLog, destroyLog, sentSig,
                   destroyPanics, chanrpcVars, skelVars, mongoVars, meshVars>>

\* Destroy is called again after a Destroy that returned
DestroyAgain ==
    /\ mgrPc = "done"
    /\ destroyCalls < MaxDestroys
    /\ mgrPc' = IF numMods = 0 THEN "done" ELSE "send"
    /\ mgrK' = 1
    /\ destroyCalls' = destroyCalls + 1
    /\ UNCHANGED <<numMods, closeSig, wg, runPc, initLog, destroyLog, sentSig,
                   destroyPanics, chanrpcVars, skelVars, mongoVars, meshVars>>

\* Destroy: m.closeSig <- true, a blocking send on a channel of capacity 1
DestroySend ==
    /\ mgrPc = "send"
    /\ LET i == DestroyOrder(numMods)[mgrK] IN
        /\ closeSig[i] < 1
        /\ closeSig' = [closeSig EXCEPT ![i] = @ + 1]
        /\ sentSig' = [sentSig EXCEPT ![i] = @ + 1]
    /\ mgrPc' = "wait"
    /\ UNCHANGED <<numMods, mgrK, wg, runPc, initLog, destroyLog,
                   destroyPanics, destroyCalls, chanrpcVars, skelVars, mongoVars, meshVars>>

\* a Destroy that does not wait for the module's Run
DestroyWait_noWait ==
    /\ mgrPc = "wait"
    /\ mgrPc' = "destroy"
    /\ UNCHANGED <<numMods, mgrK, closeSig, wg, runPc, initLog, destroyLog, sentSig,
                   destroyPanics, destroyCalls, chanrpcVars, skelVars, mongoVars, meshVars>>

\* Destroy: m.wg.Wait()
DestroyWait ==
    /\ mgrPc = "wait"
    /\ wg[DestroyOrder(numMods)[mgrK]] = 0
    /\ mgrPc' = "destroy"
    /\ UNCHANGED <<numMods, mgrK, closeSig, wg, runPc, initLog, destroyLog, sentSig,
                   destroyPanics, destroyCalls, chanrpcVars, skelVars, mongoVars, meshVars>>

\* Destroy: destroy(m), and the step of the loop
DestroyModule(panics) ==
    /\ mgrPc = "destroy"
    /\ LET i == DestroyOrder(numMods)[mgrK]
           d == destroy(panics)
       IN
        /\ destroyLog' = IF d.invoked THEN Append(destroyLog, i) ELSE destroyLog
        /\ destroyPanics' = IF panics THEN destroyPanics \cup {i} ELSE destroyPanics
        /\ IF d.escaped
           THEN mgrPc' = "destroyPanic" /\ UNCHANGED mgrK
           ELSE IF mgrK < numMods
           THEN mgrK' = mgrK + 1 /\ mgrPc' = "send"
           ELSE mgrK' = 1 /\ mgrPc' = "done"
    /\ UNCHANGED <<numMods, closeSig, wg, runPc, initLog, sentSig, destroyCalls, chanrpcVars, skelVars, mongoVars, meshVars>>

\* run(m): the module's Run receives the value of its closeSig
RunRecvClose(i) ==
    /\ runPc[i] = "running"
    /\ closeSig[i] > 0
    /\ closeSig' = [closeSig EXCEPT ![i] = @ - 1]
    /\ runPc' = [runPc EXCEPT ![i] = "closing"]
    /\ UNCHANGED <<numMods, mgrPc, mgrK, wg, initLog, destroyLog, sentSig,
                   destroyPanics, destroyCalls, chanrpcVars, skelVars, mongoVars, meshVars>>

\* run(m): m.mi.Run returns, after its closeSig or on its own; m.wg.Done()
RunReturn(i) ==
    /\ runPc[i] \in {"running", "closing"}
    /\ runPc' = [runPc EXCEPT ![i] = "returned"]
    /\ wg' = [wg EXCEPT ![i] = @ - 1]
    /\ UNCHANGED <<numMods, mgrPc, mgrK, closeSig, initLog, destroyLog, sentSig,
                   destroyPanics, destroyCalls, chanrpcVars, skelVars, mongoVars, meshVars>>

ModuleInit ==
    /\ numMods = 0
    /\ mgrPc = "register"
    /\ mgrK = 1
    /\ closeSig = [i \in Modules |-> 0]
    /\ wg = [i \in Modules |-> 0]
    /\ runPc = [i \in Modules |-> "none"]
    /\ initLog = <<>>
    /\ destroyLog = <<>>
    /\ sentSig = [i \in Modules |-> 0]
    /\ destroyPanics = {}
    /\ destroyCalls = 0

----------------------------------------------------------------------------
(* The Skeleton loop *)

\* number of pieces of work the Skeleton is given in a run: calls posted to
\* its two servers, AsynCall and Go made by its handlers, timers that fire
MaxWork == 5
\* the GoLen and the TimerDispatcherLen of an enabled facility
MaxFacilityLen == 1

Servers == {"rpc", "cmd"}
HandlerKinds == {"rpc", "cmd", "asynCb", "goCb", "timer"}

skServers == <<inCap, inQ, inBlocked, inClosed, skPosted>>
skClient == <<skAsynCap, skAsynRet, skPending, skInflight>>
skPool == <<skGoLen, skJobs, skChanCb>>
skTimer == <<skTimerLen, skChanTimer>>
skLoop == <<skPc, skBack, running, ranKinds, lateExec, lateCbs>>
skFacility == <<skChanRPCServer, skConf, skCalls>>

\* g.Idle(): neither phase of the pool has pending items
GoIdle == skJobs = 0 /\ skChanCb = 0

\* a Run that starts the handler on another goroutine and goes on
AfterCall_go(back) == back

\* where Run is after calling a handler: in the handler, until it returns
AfterCall(back) == "handler"

\* the calls posted to the Skeleton's servers
InboundCall(s) == [id |-> <<s, 0>>, f |-> "K1", arg |-> 1, chanRet |-> "sync", cb |-> 1]

\* the errors of a sequence of RetInfos
Errors(ris) == {ris[i].err : i \in 1..Len(ris)}

\* Run calls one handler: server.Exec(ci), commandServer.Exec(ci),
\* client.Cb(ri), g.Cb(cb) or t.Cb()
CallHandler(kind, ci, back) ==
    /\ running' = running \cup {[kind |-> kind, n |-> Cardinality(running) + 1, ci |-> ci]}
    /\ skPc' = AfterCall(back)
    /\ skBack' = back
    /\ ranKinds' = ranKinds \cup {kind}
    /\ lateExec' = (lateExec \/ (gotClose /\ kind \in Servers))
    /\ lateCbs' = IF gotClose /\ kind \notin Servers THEN lateCbs + 1 ELSE lateCbs

\* a teardown loop that stops as soon as one of the two is idle
TeardownLoops_either(gIdle, cIdle) == ~gIdle /\ ~cIdle

\* Run: the condition of `for !s.g.Idle() || !s.client.Idle()`
TeardownLoops(gIdle, cIdle) == ~gIdle \/ ~cIdle

\* another thread posts a call to one of the Skeleton's servers: a blocking
\* send, which panics on a closed queue
Inbound(s) ==
    /\ work < MaxWork
    /\ work' = work + 1
    /\ IF inClosed[s] THEN UNCHANGED <<inQ, inBlocked>>
       ELSE IF inQ[s] < inCap[s]
       THEN inQ' = [inQ EXCEPT ![s] = @ + 1] /\ UNCHANGED inBlocked
       ELSE inBlocked' = [inBlocked EXCEPT ![s] = @ + 1] /\ UNCHANGED inQ
    /\ UNCHANGED <<inCap, inClosed, skPosted, skClient, skPool, skTimer, skLoop,
                   skCloseSig, gotClose, skFacility, chanrpcVars, moduleVars, mongoVars, meshVars>>

\* module.Destroy sends the Skeleton's closeSig
SignalClose ==
    /\ skCloseSig = 0
    /\ ~gotClose
    /\ skCloseSig' = 1
    /\ UNCHANGED <<skServers, skClient, skPool, skTimer, skLoop,
                   gotClose, work, skFacility, chanrpcVars, moduleVars, mongoVars, meshVars>>

\* a target server answers one of the Skeleton's async calls
TargetReply ==
    /\ skInflight > 0
    /\ skAsynRet < skAsynCap
    /\ skInflight' = skInflight - 1
    /\ skAsynRet' = skAsynRet + 1
    /\ UNCHANGED <<skAsynCap, skPending, skServers, skPool, skTimer, skLoop,
                   skCloseSig, gotClose, work, skFacility, chanrpcVars, moduleVars, mongoVars, meshVars>>

\* a pool worker finishes f and posts cb on ChanCb
WorkerDone ==
    /\ skJobs > 0
    /\ skChanCb < skGoLen
    /\ skJobs' = skJobs - 1
    /\ skChanCb' = skChanCb + 1
    /\ UNCHANGED <<skGoLen, skServers, skClient, skTimer, skLoop,
                   skCloseSig, gotClose, work, skFacility, chanrpcVars, moduleVars, mongoVars, meshVars>>

\* a timer fires
TimerFire ==
    /\ work < MaxWork
    /\ skChanTimer < skTimerLen
    /\ work' = work + 1
    /\ skChanTimer' = skChanTimer + 1
    /\ UNCHANGED <<skTimerLen, skServers, skClient, skPool, skLoop,
                   skCloseSig, gotClose, skFacility, chanrpcVars, moduleVars, mongoVars, meshVars>>

\* Run: `case ci := <-s.server.ChanCall: s.server.Exec(ci)` and the same for
\* the command server
SkExec(s) ==
    /\ skPc = "select"
    /\ ~inClosed[s]
    /\ inQ[s] + inBlocked[s] > 0
    /\ CallHandler(s, InboundCall(s), "select")
    /\ IF inBlocked[s] > 0
       THEN inBlocked' = [inBlocked EXCEPT ![s] = @ - 1] /\ UNCHANGED inQ
       ELSE inQ' = [inQ EXCEPT ![s] = @ - 1] /\ UNCHANGED inBlocked
    /\ UNCHANGED <<inCap, inClosed, skPosted, skClient, skPool, skTimer,
                   skCloseSig, gotClose, work, skFacility, chanrpcVars, moduleVars, mongoVars, meshVars>>

\* Run: `case ri := <-s.client.ChanAsynRet: s.client.Cb(ri)`
SkAsynCb ==
    /\ skPc = "select"
    /\ skAsynRet > 0
    /\ skAsynRet' = skAsynRet - 1
    /\ skPending' = skPending - 1
    /\ CallHandler("asynCb", NoCall, "select")
    /\ UNCHANGED <<skAsynCap, skInflight, skServers, skPool, skTimer,
                   skCloseSig, gotClose, work, skFacility, chanrpcVars, moduleVars, mongoVars, meshVars>>

\* Run: `case cb := <-s.g.ChanCb: s.g.Cb(cb)`
SkGoCb ==
    /\ skPc = "select"
    /\ skChanCb > 0
    /\ skChanCb' = skChanCb - 1
    /\ CallHandler("goCb", NoCall, "select")
    /\ UNCHANGED <<skGoLen, skJobs, skServers, skClient, skTimer,
                   skCloseSig, gotClose, work, skFacility, chanrpcVars, moduleVars, mongoVars, meshVars>>

\* Run: `case t := <-s.dispatcher.ChanTimer: t.Cb()`
SkTimerCb ==
    /\ skPc = "select"
    /\ skChanTimer > 0
    /\ skChanTimer' = skChanTimer - 1
    /\ CallHandler("timer", NoCall, "select")
    /\ UNCHANGED <<skTimerLen, skServers, skClient, skPool,
                   skCloseSig, gotClose, work, skFacility, chanrpcVars, moduleVars, mongoVars, meshVars>>

\* a handler returns; Exec posts the RetInfo of the call
HandlerReturn(h) ==
    /\ h \in running
    /\ running' = running \ {h}
    /\ skPc' = IF skPc = "handler" THEN skBack ELSE skPc
    /\ skPosted' = IF h.kind \in Servers
                   THEN [skPosted EXCEPT ![h.kind] = @ \cup Errors(exec(h.ci).post)]
                   ELSE skPosted
    /\ UNCHANGED <<skBack, ranKinds, lateExec, lateCbs, inCap, inQ, inBlocked, inClosed,
                   skClient, skPool, skTimer,
                   skCloseSig, gotClose, work, skFacility, chanrpcVars, moduleVars, mongoVars, meshVars>>

\* a handler calls Skeleton.AsynCall: rejected inline at capacity, else
\* enqueued on the target (ok) or answered by the synthetic reply
HandlerAsynCall(ok) ==
    /\ running # {}
    /\ skAsynCap > 0
    /\ work < MaxWork
    /\ work' = work + 1
    /\ IF tooManyCalls(skPending, skAsynCap)
       THEN UNCHANGED <<skAsynRet, skPending, skInflight>>
       ELSE /\ skPending' = skPending + 1
            /\ IF ok THEN skInflight' = skInflight + 1 /\ UNCHANGED skAsynRet
                     ELSE skAsynRet' = skAsynRet + 1 /\ UNCHANGED skInflight
    /\ UNCHANGED <<skAsynCap, skServers, skPool, skTimer, skLoop,
                   skCloseSig, gotClose, skFacility, chanrpcVars, moduleVars, mongoVars, meshVars>>

\* a handler calls Skeleton.Go
HandlerGo ==
    /\ running # {}
    /\ skGoLen > 0
    /\ work < MaxWork
    /\ work' = work + 1
    /\ skJobs' = skJobs + 1
    /\ UNCHANGED <<skGoLen, skChanCb, skServers, skClient, skTimer, skLoop,
                   skCloseSig, gotClose, skFacility, chanrpcVars, moduleVars, mongoVars, meshVars>>

\* Run: `case <-closeSig:`
SkRecvClose ==
    /\ skPc = "select"
    /\ skCloseSig > 0
    /\ skCloseSig' = skCloseSig - 1
    /\ gotClose' = TRUE
    /\ skPc' = "closeCmd"
    /\ UNCHANGED <<skBack, running, ranKinds, lateExec, lateCbs, skServers, skClient,
                   skPool, skTimer, work, skFacility, chanrpcVars, moduleVars, mongoVars, meshVars>>

\* Run: s.commandServer.Close(), then s.server.Close(): the queue is closed,
\* the senders blocked on it panic, and each queued call is answered
SkCloseServer ==
    /\ skPc \in {"closeCmd", "closeSrv"}
    /\ LET s == IF skPc = "closeCmd" THEN "cmd" ELSE "rpc" IN
        /\ inClosed' = [inClosed EXCEPT ![s] = TRUE]
        /\ inQ' = [inQ EXCEPT ![s] = 0]
        /\ inBlocked' = [inBlocked EXCEPT ![s] = 0]
        /\ skPosted' = IF inQ[s] > 0
                       THEN [skPosted EXCEPT ![s] = @ \cup Errors(closeRet(InboundCall(s)))]
                       ELSE skPosted
    /\ skPc' = IF skPc = "closeCmd" THEN "closeSrv" ELSE "check"
    /\ UNCHANGED <<skBack, running, ranKinds, lateExec, lateCbs, inCap,
                   skClient, skPool, skTimer, skCloseSig, gotClose, work,
                   skFacility, chanrpcVars, moduleVars, mongoVars, meshVars>>

\* Run: the test of the teardown loop, and `return`
SkCheck ==
    /\ skPc = "check"
    /\ skPc' = IF TeardownLoops(GoIdle, Idle(skPending)) THEN "gClose" ELSE "returned"
    /\ UNCHANGED <<skBack, running, ranKinds, lateExec, lateCbs, skServers, skClient,
                   skPool, skTimer, skCloseSig, gotClose, work, skFacility, chanrpcVars, moduleVars, mongoVars, meshVars>>

\* Run: s.g.Close(), which receives and runs callbacks until the pool is idle
SkGClose ==
    /\ skPc = "gClose"
    /\ IF GoIdle
       THEN /\ skPc' = "cliClose"
            /\ UNCHANGED <<skBack, running, ranKinds, lateExec, lateCbs, skChanCb>>
       ELSE /\ skChanCb > 0
            /\ skChanCb' = skChanCb - 1
            /\ CallHandler("goCb", NoCall, "gClose")
    /\ UNCHANGED <<skGoLen, skJobs, skServers, skClient, skTimer,
                   skCloseSig, gotClose, work, skFacility, chanrpcVars, moduleVars, mongoVars, meshVars>>

\* Run: s.client.Close(): `for c.pendingAsynCall > 0 { c.Cb(<-c.ChanAsynRet) }`
SkCliClose ==
    /\ skPc = "cliClose"
    /\ IF Idle(skPending)
       THEN /\ skPc' = "check"
            /\ UNCHANGED <<skBack, running, ranKinds, lateExec, lateCbs, skAsynRet, skPending>>
       ELSE /\ skAsynRet > 0
            /\ skAsynRet' = skAsynRet - 1
            /\ skPending' = skPending - 1
            /\ CallHandler("asynCb", NoCall, "cliClose")
    /\ UNCHANGED <<skAsynCap, skInflight, skServers, skPool, skTimer,
                   skCloseSig, gotClose, work, skFacility, chanrpcVars, moduleVars, mongoVars, meshVars>>

\* the outcome of a public operation that passed its test
Forwarded == "forwarded"

\* Skeleton.Init: `if s.GoLen <= 0 { s.GoLen = 0 }` and the like
NormaliseLen(n) == IF n <= 0 THEN 0 ELSE n

\* a test that never fails
lenGate_never(len, msg) == Forwarded

\* the test at the head of a public operation: `if s.GoLen == 0 { panic(...) }`
lenGate(len, msg) == IF len = 0 THEN msg ELSE Forwarded

\* RegisterChanRPC: `if s.ChanRPCServer == nil { panic(...) }`
serverGate(server) == IF server = Nil THEN "invalid ChanRPCServer" ELSE Forwarded

\* Skeleton.Init: the lengths are normalised, s.server is the given server
\* or NewServer(0), the command server is NewServer(0)
SkInit ==
    /\ skPc = "new"
    /\ skPc' = "select"
    /\ skGoLen' = NormaliseLen(skGoLen)
    /\ skTimerLen' = NormaliseLen(skTimerLen)
    /\ skAsynCap' = NormaliseLen(skAsynCap)
    /\ inCap' = [s \in Servers |->
                   IF s = "rpc" /\ skChanRPCServer # Nil THEN chanCallCap ELSE 0]
    /\ UNCHANGED <<skBack, running, ranKinds, lateExec, lateCbs, skCloseSig,
                   inQ, inBlocked, inClosed, skPosted, skAsynRet, skPending, skInflight,
                   skJobs, skChanCb, skChanTimer, gotClose, work,
                   skFacility, chanrpcVars, moduleVars, mongoVars, meshVars>>

\* a public operation whose only effect here is its outcome
SkCall(op, res) ==
    /\ skPc # "new"
    /\ work < MaxWork
    /\ work' = work + 1
    /\ skCalls' = skCalls \cup {<<op, res>>}

\* Skeleton.AfterFunc
SkAfterFunc ==
    /\ SkCall("AfterFunc", lenGate(skTimerLen, "invalid TimerDispatcherLen"))
    /\ UNCHANGED <<skServers, skClient, skPool, skTimer, skLoop, skCloseSig, gotClose,
                   skChanRPCServer, skConf, chanrpcVars, moduleVars, mongoVars, meshVars>>

\* Skeleton.CronFunc
SkCronFunc ==
    /\ SkCall("CronFunc", lenGate(skTimerLen, "invalid TimerDispatcherLen"))
    /\ UNCHANGED <<skServers, skClient, skPool, skTimer, skLoop, skCloseSig, gotClose,
                   skChanRPCServer, skConf, chanrpcVars, moduleVars, mongoVars, meshVars>>

\* Skeleton.Go: g.Go starts f
SkGo ==
    /\ SkCall("Go", lenGate(skGoLen, "invalid GoLen"))
    /\ skJobs' = IF lenGate(skGoLen, "invalid GoLen") = Forwarded THEN skJobs + 1 ELSE skJobs
    /\ UNCHANGED <<skGoLen, skChanCb, skServers, skClient, skTimer, skLoop, skCloseSig,
                   gotClose, skChanRPCServer, skConf, chanrpcVars, moduleVars, mongoVars, meshVars>>

\* Skeleton.NewLinearContext
SkNewLinearContext ==
    /\ SkCall("NewLinearContext", lenGate(skGoLen, "invalid GoLen"))
    /\ UNCHANGED <<skServers, skClient, skPool, skTimer, skLoop, skCloseSig, gotClose,
                   skChanRPCServer, skConf, chanrpcVars, moduleVars, mongoVars, meshVars>>

\* Skeleton.AsynCall: client.Attach(server); client.AsynCall(id, args...),
\* which is rejected inline at capacity, else enqueued on the target (ok) or
\* answered by the synthetic reply
SkAsynCall(ok) ==
    /\ SkCall("AsynCall", lenGate(skAsynCap, "invalid AsynCallLen"))
    /\ IF lenGate(skAsynCap, "invalid AsynCallLen") # Forwarded
          \/ tooManyCalls(skPending, skAsynCap)
       THEN UNCHANGED <<skAsynRet, skPending, skInflight>>
       ELSE /\ skPending' = skPending + 1
            /\ IF ok THEN skInflight' = skInflight + 1 /\ UNCHANGED skAsynRet
                     ELSE skAsynRet' = skAsynRet + 1 /\ UNCHANGED skInflight
    /\ UNCHANGED <<skAsynCap, skServers, skPool, skTimer, skLoop, skCloseSig, gotClose,
                   skChanRPCServer, skConf, chanrpcVars, moduleVars, mongoVars, meshVars>>

\* Skeleton.RegisterChanRPC: s.server.Register(id, f)
SkRegisterChanRPC(in) ==
    /\ SkCall("RegisterChanRPC", serverGate(skChanRPCServer))
    /\ functions' = IF serverGate(skChanRPCServer) = Forwarded
                    THEN register(functions, in[1], in[2]).functions
                    ELSE functions
    /\ UNCHANGED <<chanCallCap, ChanCall, chanCallClosed, srvPc, srvCi,
                   c_s, asynCap, ChanAsynRet, pendingAsynCall, cliPc, nextAsyn,
                   syncPc, syncCi, chanSyncRet,
                   enqueued, admitted, replies, ran, outcome, inline, atClose,
                   blockedAtClose, execLog, cbLog, enqLog, regLog, closeCbs, cbRun,
                   skServers, skClient, skPool, skTimer, skLoop, skCloseSig, gotClose,
                   skChanRPCServer, skConf, moduleVars, mongoVars, meshVars>>

\* Skeleton.Init
SkeletonInit ==
    /\ skPc = "select"
    /\ skBack = "select"
    /\ running = {}
    /\ skCloseSig = 0
    /\ inCap \in {[s \in Servers |-> IF s = "cmd" THEN 0 ELSE l] : l \in {0, MaxChanCallLen}}
    /\ inQ = [s \in Servers |-> 0]
    /\ inBlocked = [s \in Servers |-> 0]
    /\ inClosed = [s \in Servers |-> FALSE]
    /\ skAsynCap \in {0, MaxAsynCallLen}
    /\ skAsynRet = 0
    /\ skPending = 0
    /\ skInflight = 0
    /\ skGoLen \in {0, MaxFacilityLen}
    /\ skJobs = 0
    /\ skChanCb = 0
    /\ skTimerLen \in {0, MaxFacilityLen}
    /\ skChanTimer = 0
    /\ gotClose = FALSE
    /\ work = 0
    /\ ranKinds = {}
    /\ lateExec = FALSE
    /\ lateCbs = 0
    /\ skPosted = [s \in Servers |-> {}]
    /\ skChanRPCServer = IF inCap["rpc"] = 0 THEN Nil ELSE "srv"
    /\ skConf = [GoLen |-> skGoLen, TimerDispatcherLen |-> skTimerLen, AsynCallLen |-> skAsynCap]
    /\ skCalls = {}

\* the lengths a Skeleton is configured with
ConfigLens == {-1, 0, MaxFacilityLen}

\* a Skeleton whose fields are set and whose Init has not been called
SkeletonNew ==
    /\ skPc = "new"
    /\ skBack = "select"
    /\ running = {}
    /\ skCloseSig = 0
    /\ inCap = [s \in Servers |-> 0]
    /\ inQ = [s \in Servers |-> 0]
    /\ inBlocked = [s \in Servers |-> 0]
    /\ inClosed = [s \in Servers |-> FALSE]
    /\ skConf \in [{"GoLen", "TimerDispatcherLen", "AsynCallLen"} -> ConfigLens]
    /\ skGoLen = skConf.GoLen
    /\ skTimerLen = skConf.TimerDispatcherLen
    /\ skAsynCap = skConf.AsynCallLen
    /\ skChanRPCServer \in {Nil, "srv"}
    /\ skAsynRet = 0
    /\ skPending = 0
    /\ skInflight = 0
    /\ skJobs = 0
    /\ skChanCb = 0
    /\ skChanTimer = 0
    /\ gotClose = FALSE
    /\ work = 0
    /\ ranKinds = {}
    /\ lateExec = FALSE
    /\ lateCbs = 0
    /\ skPosted = [s \in Servers |-> {}]
    /\ skCalls = {}

\* the Skeleton at rest, for the specifications that do not run it
SkeletonIdle ==
    /\ SkeletonInit
    /\ inCap = [s \in Servers |-> 0]
    /\ skAsynCap = 0
    /\ skGoLen = 0
    /\ skTimerLen = 0

----------------------------------------------------------------------------
(* The MongoDB session pool *)

\* largest sessionNum tried
MaxSessions == 3
\* largest number of references held at a time
MaxRefs == 4

SessionIds == 1..MaxSessions

\* SessionHeap.Less
Less(h, i, j) == h[i].ref < h[j].ref

\* a Swap that leaves the index fields as they were
Swap_keepIndex(h, i, j) ==
    [k \in DOMAIN h |-> IF k = i THEN h[j] ELSE IF k = j THEN h[i] ELSE h[k]]

\* SessionHeap.Swap
Swap(h, i, j) ==
    [k \in DOMAIN h |->
        IF k = i THEN [h[j] EXCEPT !.index = i]
        ELSE IF k = j THEN [h[i] EXCEPT !.index = j]
        ELSE h[k]]

\* container/heap, down(h, i0, n): the heap after the sift
RECURSIVE down(_, _, _)
down(h, i, n) ==
    LET j1 == 2 * i + 1 IN
    IF j1 >= n THEN h
    ELSE LET j == IF j1 + 1 < n /\ Less(h, j1 + 1, j1) THEN j1 + 1 ELSE j1 IN
         IF ~Less(h, j, i) THEN h ELSE down(Swap(h, i, j), j, n)

\* container/heap, up(h, j): `i := (j - 1) / 2`, which is 0 for j = 0
RECURSIVE up(_, _)
up(h, j) ==
    LET i == IF j = 0 THEN 0 ELSE (j - 1) \div 2 IN
    IF i = j \/ ~Less(h, j, i) THEN h ELSE up(Swap(h, i, j), i)

\* heap.Fix(h, i): `if !down(h, i, h.Len()) { up(h, i) }`
Fix(h, i) ==
    LET n == Cardinality(DOMAIN h)
        d == down(h, i, n)
    IN IF d # h THEN d ELSE up(h, i)

\* heap.Init(h): `for i := n/2 - 1; i >= 0; i-- { down(h, i, n) }`
RECURSIVE heapify(_, _)
heapify(h, i) == IF i < 0 THEN h ELSE heapify(down(h, i, Cardinality(DOMAIN h)), i - 1)

\* DialWithTimeout: sessionNum sessions, each with ref 0 and its position
\* as index, then heap.Init
DialWithTimeout(sessionNum) ==
    heapify([i \in 0..(sessionNum - 1) |-> [id |-> i + 1, ref |-> 0, index |-> i]],
            (sessionNum \div 2) - 1)

\* the Session with a given id, wherever it is in the heap
SessionOf(h, id) == h[CHOOSE i \in DOMAIN h : h[i].id = id]

\* number of references held
TotalRefs(h) ==
    LET RECURSIVE sum(_)
        sum(i) == IF i < 0 THEN 0 ELSE h[i].ref + sum(i - 1)
    IN sum(Cardinality(DOMAIN h) - 1)

\* DialContext.Ref
Ref ==
    /\ TotalRefs(sessions) < MaxRefs
    /\ LET s == sessions[0] IN
        /\ sessions' = Fix([sessions EXCEPT ![0].ref = @ + 1], 0)
        /\ refRet' = s.id
    /\ UNCHANGED <<chanrpcVars, moduleVars, skelVars, meshVars>>

\* DialContext.UnRef(s), for a session s that is referenced
UnRef(id) ==
    /\ \E i \in DOMAIN sessions : sessions[i].id = id
    /\ LET s == SessionOf(sessions, id) IN
        /\ s.ref > 0
        /\ sessions' = Fix([i \in DOMAIN sessions |->
                               IF sessions[i].id = id
                               THEN [sessions[i] EXCEPT !.ref = @ - 1]
                               ELSE sessions[i]],
                           s.index)
    /\ UNCHANGED <<refRet, chanrpcVars, moduleVars, skelVars, meshVars>>

\* a pool of one session, for the specifications that do not use it
MongoIdle ==
    /\ sessions = DialWithTimeout(1)
    /\ refRet = 0

----------------------------------------------------------------------------
(* A registry of Skeleton modules that call one another *)

\* the modules of the registry, in registration order
MeshMods == {1, 2}

\* number of AsynCalls a module makes in a run
MaxMeshCalls == 2

\* an async call of module c
MeshCall(c) == [id |-> <<"m", c>>, f |-> "K1", arg |-> 1, chanRet |-> "asyn", cb |-> 1]

\* `ci.chanRet <- ri`, a blocking send on the caller's ChanAsynRet, for each
\* of the RetInfos ris; how records the way the call was answered
MeshPost(c, ris, how) ==
    /\ mAsynRet[c] + Len(ris) <= MaxAsynCallLen
    /\ mAsynRet' = [mAsynRet EXCEPT ![c] = @ + Len(ris)]
    /\ mAnswers' = IF ris = <<>> THEN mAnswers ELSE [mAnswers EXCEPT ![c] = @ \cup {how}]

\* Skeleton.AsynCall(server of t, ...) made by a handler or a callback of m
MeshAsynCall(m, t) ==
    /\ m # t
    /\ mPc[m] \in {"select", "cliClose"}
    /\ mIssued[m] < MaxMeshCalls
    /\ mIssued' = [mIssued EXCEPT ![m] = @ + 1]
    /\ IF tooManyCalls(mPending[m], MaxAsynCallLen)
       THEN UNCHANGED <<mPending, mQ, mExec, mAsynRet, mAnswers>>
       ELSE /\ mPending' = [mPending EXCEPT ![m] = @ + 1]
            /\ IF mClosed[t]
               THEN MeshPost(m, <<ErrSendClosed>>, "sendClosed") /\ UNCHANGED <<mQ, mExec>>
               ELSE IF Len(mQ[t]) < mCallCap[t]
               THEN /\ mQ' = [mQ EXCEPT ![t] = Append(@, m)]
                    /\ UNCHANGED <<mExec, mAsynRet, mAnswers>>
               ELSE \/ MeshPost(m, <<ErrFull>>, "full") /\ UNCHANGED <<mQ, mExec>>
                    \/ \* an unbuffered queue whose reader is parked in its select
                       /\ mCallCap[t] = 0
                       /\ mPc[t] = "select"
                       /\ mExec[t] = 0
                       /\ mExec' = [mExec EXCEPT ![t] = m]
                       /\ UNCHANGED <<mQ, mAsynRet, mAnswers>>
    /\ UNCHANGED <<mPc, mCallCap, mClosed, mAtClose,
                   chanrpcVars, moduleVars, skelVars, mongoVars>>

\* Run: `case ri := <-s.client.ChanAsynRet: s.client.Cb(ri)`
MeshCb(m) ==
    /\ mPc[m] = "select"
    /\ mExec[m] = 0
    /\ mAsynRet[m] > 0
    /\ mAsynRet' = [mAsynRet EXCEPT ![m] = @ - 1]
    /\ mPending' = [mPending EXCEPT ![m] = @ - 1]
    /\ UNCHANGED <<mPc, mCallCap, mQ, mExec, mClosed, mIssued, mAnswers, mAtClose,
                   chanrpcVars, moduleVars, skelVars, mongoVars>>

\* Run: `case ci := <-s.server.ChanCall:`
MeshRecv(m) ==
    /\ mPc[m] = "select"
    /\ mExec[m] = 0
    /\ mQ[m] # <<>>
    /\ mExec' = [mExec EXCEPT ![m] = Head(mQ[m])]
    /\ mQ' = [mQ EXCEPT ![m] = Tail(@)]
    /\ UNCHANGED <<mPc, mCallCap, mClosed, mAsynRet, mPending, mIssued, mAnswers, mAtClose,
                   chanrpcVars, moduleVars, skelVars, mongoVars>>

\* Run: `s.server.Exec(ci)` returns, having posted the RetInfo of the call
MeshExec(m) ==
    /\ mExec[m] # 0
    /\ MeshPost(mExec[m], exec(MeshCall(mExec[m])).post, "exec")
    /\ mExec' = [mExec EXCEPT ![m] = 0]
    /\ UNCHANGED <<mPc, mCallCap, mQ, mClosed, mPending, mIssued, mAtClose,
                   chanrpcVars, moduleVars, skelVars, mongoVars>>

\* Run: `case <-closeSig:`
MeshRecvClose(m) ==
    /\ mPc[m] = "select"
    /\ mExec[m] = 0
    /\ closeSig[m] > 0
    /\ closeSig' = [closeSig EXCEPT ![m] = @ - 1]
    /\ runPc' = [runPc EXCEPT ![m] = "closing"]
    /\ mPc' = [mPc EXCEPT ![m] = "closeSrv"]
    /\ mAtClose' = [mAtClose EXCEPT ![m] = mPending[m]]
    /\ UNCHANGED <<mCallCap, mQ, mExec, mClosed, mAsynRet, mPending, mIssued, mAnswers,
                   numMods, mgrPc, mgrK, wg, initLog, destroyLog, sentSig,
                   destroyPanics, destroyCalls, chanrpcVars, skelVars, mongoVars>>

\* Run: s.commandServer.Close(), on which nothing is queued, and the
\* close(s.ChanCall) of s.server.Close()
MeshServerClose(m) ==
    /\ mPc[m] = "closeSrv"
    /\ mClosed' = [mClosed EXCEPT ![m] = TRUE]
    /\ mPc' = [mPc EXCEPT ![m] = IF mQ[m] = <<>> THEN "teardown" ELSE "drain"]
    /\ UNCHANGED <<mCallCap, mQ, mExec, mAsynRet, mPending, mIssued, mAnswers, mAtClose,
                   chanrpcVars, moduleVars, skelVars, mongoVars>>

\* s.server.Close(), one iteration of `for ci := range s.ChanCall`
MeshDrain(m) ==
    /\ mPc[m] = "drain"
    /\ MeshPost(Head(mQ[m]), closeRet(MeshCall(Head(mQ[m]))), "drain")
    /\ mQ' = [mQ EXCEPT ![m] = Tail(@)]
    /\ mPc' = [mPc EXCEPT ![m] = IF Tail(mQ[m]) = <<>> THEN "teardown" ELSE "drain"]
    /\ UNCHANGED <<mCallCap, mExec, mClosed, mPending, mIssued, mAtClose,
                   chanrpcVars, moduleVars, skelVars, mongoVars>>

\* Run: the test of `for !s.g.Idle() || !s.client.Idle()`, and the return
\* of Run followed by m.wg.Done()
MeshTeardown(m) ==
    /\ mPc[m] = "teardown"
    /\ IF TeardownLoops(GoIdle, Idle(mPending[m]))
       THEN /\ mPc' = [mPc EXCEPT ![m] = "cliClose"]
            /\ UNCHANGED <<runPc, wg>>
       ELSE /\ mPc' = [mPc EXCEPT ![m] = "returned"]
            /\ runPc' = [runPc EXCEPT ![m] = "returned"]
            /\ wg' = [wg EXCEPT ![m] = @ - 1]
    /\ UNCHANGED <<mCallCap, mQ, mExec, mClosed, mAsynRet, mPending, mIssued, mAnswers,
                   mAtClose, numMods, mgrPc, mgrK, closeSig, initLog, destroyLog, sentSig,
                   destroyPanics, destroyCalls, chanrpcVars, skelVars, mongoVars>>

\* Run: s.client.Close(), one turn of `for c.pendingAsynCall > 0 { c.Cb(<-c.ChanAsynRet) }`
\* or its return
MeshCliClose(m) ==
    /\ mPc[m] = "cliClose"
    /\ IF closeLoops(mPending[m])
       THEN /\ mAsynRet[m] > 0
            /\ mAsynRet' = [mAsynRet EXCEPT ![m] = @ - 1]
            /\ mPending' = [mPending EXCEPT ![m] = @ - 1]
            /\ UNCHANGED mPc
       ELSE /\ mPc' = [mPc EXCEPT ![m] = "teardown"]
            /\ UNCHANGED <<mAsynRet, mPending>>
    /\ UNCHANGED <<mCallCap, mQ, mExec, mClosed, mIssued, mAnswers, mAtClose,
                   chanrpcVars, moduleVars, skelVars, mongoVars>>

\* the steps of the loop of module m
MeshLoop(m) ==
    \/ MeshCb(m)
    \/ MeshRecv(m)
    \/ MeshExec(m)
    \/ MeshRecvClose(m)
    \/ MeshServerClose(m)
    \/ MeshDrain(m)
    \/ MeshTeardown(m)
    \/ MeshCliClose(m)

\* the steps of the thread that calls Destroy
MeshDestroy ==
    \/ DestroyStart
    \/ DestroySend
    \/ DestroyWait
    \/ \E panics \in BOOLEAN : DestroyModule(panics)

\* the Skeletons after Init, each with a server of some length
MeshInit ==
    /\ mPc = [m \in MeshMods |-> "select"]
    /\ mCallCap \in [MeshMods -> {0, MaxChanCallLen}]
    /\ mQ = [m \in MeshMods |-> <<>>]
    /\ mExec = [m \in MeshMods |-> 0]
    /\ mClosed = [m \in MeshMods |-> FALSE]
    /\ mAsynRet = [m \in MeshMods |-> 0]
    /\ mPending = [m \in MeshMods |-> 0]
    /\ mIssued = [m \in MeshMods |-> 0]
    /\ mAnswers = [m \in MeshMods |-> {}]
    /\ mAtClose = [m \in MeshMods |-> -1]

\* the registry at rest, for the specifications that do not run it
MeshIdle ==
    /\ MeshInit
    /\ mCallCap = [m \in MeshMods |-> 0]

\* the module manager after Register of every module of the registry and Init
MeshStarted ==
    /\ numMods = Cardinality(MeshMods)
    /\ mgrPc = "started"
    /\ mgrK = 1
    /\ closeSig = [i \in Modules |-> 0]
    /\ wg = [i \in Modules |-> IF i \in MeshMods THEN 1 ELSE 0]
    /\ runPc = [i \in Modules |-> IF i \in MeshMods THEN "running" ELSE "none"]
    /\ initLog = InitOrder(Cardinality(MeshMods))
    /\ destroyLog = <<>>
    /\ sentSig = [i \in Modules |-> 0]
    /\ destroyPanics = {}
    /\ destroyCalls = 0

----------------------------------------------------------------------------
(* The specifications *)

\* NewServer(l) for l in callLens, NewClient(l) for l in asynLens
ChanrpcStart(callLens, asynLens) ==
    /\ functions = InitFunctions
    /\ chanCallCap \in callLens
    /\ ChanCall = <<>>
    /\ chanCallClosed = FALSE
    /\ srvPc = "loop"
    /\ srvCi = NoCall
    /\ c_s = Nil
    /\ asynCap \in asynLens
    /\ ChanAsynRet = <<>>
    /\ pendingAsynCall = 0
    /\ cliPc = "idle"
    /\ nextAsyn = 0
    /\ syncPc = [j \in SyncCallers |-> "start"]
    /\ syncCi = [j \in SyncCallers |-> NoCall]
    /\ chanSyncRet = [j \in SyncCallers |-> <<>>]
    /\ enqueued = {}
    /\ admitted = {}
    /\ replies = [c \in CallIds |-> <<>>]
    /\ ran = [c \in CallIds |-> 0]
    /\ outcome = [c \in CallIds |-> NoOutcome]
    /\ inline = {}
    /\ atClose = {}
    /\ blockedAtClose = {}
    /\ execLog = <<>>
    /\ cbLog = <<>>
    /\ enqLog = <<>>
    /\ regLog = <<>>
    /\ closeCbs = 0
    /\ cbRun = [running |-> FALSE, atCap |-> FALSE, next |-> 0, panicked |-> FALSE]

ChanrpcInit == ChanrpcStart(0..MaxChanCallLen, 0..MaxAsynCallLen)

Init == ChanrpcInit /\ ModuleInit /\ SkeletonIdle /\ MongoIdle /\ MeshIdle

Next ==
    \/ SrvRecv
    \/ SrvExec
    \/ SrvClose
    \/ SrvDrain
    \/ \E j \in SyncCallers, in \in SyncInputs : SyncCall(j, in)
    \/ \E j \in SyncCallers : SyncReturn(j)
    \/ \E in \in AsynInputs : AsynCall(in)
    \/ AsynCallInc
    \/ ClientCb

Spec == Init /\ [][Next]_vars

\* the server with its table being registered, and callers of Call0 /
\* Call1 / CallN and of Server.Go
NextServer ==
    \/ \E in \in RegisterInputs : ServerRegister(in)
    \/ \E j \in SyncCallers, in \in GoInputs : ServerGo(j, in)
    \/ \E j \in SyncCallers, in \in CallInputs : SyncCall(j, in)
    \/ \E j \in SyncCallers : SyncReturn(j)
    \/ SrvRecv
    \/ SrvExec
    \/ SrvClose
    \/ SrvDrain

InitServer == ChanrpcStart(0..MaxChanCallLen, {0}) /\ ModuleInit /\ SkeletonIdle /\ MongoIdle /\ MeshIdle

SpecServer == InitServer /\ [][NextServer]_vars

\* one asynchronous client, with room for several outstanding calls, that
\* makes every kind of call and then closes, and the server it calls
NextClient ==
    \/ \E in \in CallInputs : AsynCall(in)
    \/ AsynCallInc
    \/ ClientCb
    \/ ClientCloseStart
    \/ ClientCloseStep
    \/ ClientCloseReturn
    \/ SrvRecv
    \/ SrvExec
    \/ SrvClose
    \/ SrvDrain

InitClient == ChanrpcStart({0, MaxClientLen}, {MaxClientLen}) /\ ModuleInit /\ SkeletonIdle /\ MongoIdle /\ MeshIdle

SpecClient == InitClient /\ [][NextClient]_vars

\* one asynchronous client whose callbacks make calls of their own and
\* panic, and the server it calls: AsynCall is made by the loop that owns
\* the client or by the callback Cb is running
NextCb ==
    \/ \E in \in CallInputs : AsynCall(in)
    \/ AsynCallInc
    \/ CbStart
    \/ \E panics \in BOOLEAN : CbReturn(panics)
    \/ SrvRecv
    \/ SrvExec
    \/ SrvClose
    \/ SrvDrain

InitCb == ChanrpcStart(0..MaxChanCallLen, {MaxAsynCallLen}) /\ ModuleInit /\ SkeletonIdle /\ MongoIdle /\ MeshIdle

SpecCb == InitCb /\ [][NextCb]_vars

NextModule ==
    \/ Register
    \/ InitStart
    \/ \E panics \in BOOLEAN : OnInit(panics)
    \/ Launch
    \/ DestroyStart
    \/ DestroySend
    \/ DestroyWait
    \/ \E panics \in BOOLEAN : DestroyModule(panics)
    \/ \E i \in Modules : RunRecvClose(i)
    \/ \E i \in Modules : RunReturn(i)

\* the chanrpc fabric at rest, for the specifications that do not run it
ChanrpcIdle ==
    /\ ChanrpcInit
    /\ chanCallCap = 0
    /\ asynCap = 0

InitModule == ModuleInit /\ ChanrpcIdle /\ SkeletonIdle /\ MongoIdle /\ MeshIdle

SpecModule == InitModule /\ [][NextModule]_vars

\* the module manager with a caller that calls Destroy more than once
NextDestroyTwice ==
    \/ NextModule
    \/ DestroyAgain

SpecDestroyTwice == InitModule /\ [][NextDestroyTwice]_vars

NextSkeleton ==
    \/ \E s \in Servers : Inbound(s)
    \/ SignalClose
    \/ TargetReply
    \/ WorkerDone
    \/ TimerFire
    \/ \E s \in Servers : SkExec(s)
    \/ SkAsynCb
    \/ SkGoCb
    \/ SkTimerCb
    \/ \E h \in running : HandlerReturn(h)
    \/ \E ok \in BOOLEAN : HandlerAsynCall(ok)
    \/ HandlerGo
    \/ SkRecvClose
    \/ SkCloseServer
    \/ SkCheck
    \/ SkGClose
    \/ SkCliClose

InitSkeleton == SkeletonInit /\ ChanrpcIdle /\ ModuleInit /\ MongoIdle /\ MeshIdle

SpecSkeleton == InitSkeleton /\ [][NextSkeleton]_vars

\* a Skeleton is configured, initialised and its public operations are called
NextFacility ==
    \/ SkInit
    \/ SkAfterFunc
    \/ SkCronFunc
    \/ SkGo
    \/ SkNewLinearContext
    \/ \E ok \in BOOLEAN : SkAsynCall(ok)
    \/ \E in \in RegisterInputs : SkRegisterChanRPC(in)

InitFacility == SkeletonNew /\ ChanrpcStart({0, MaxChanCallLen}, {0}) /\ ModuleInit /\ MongoIdle /\ MeshIdle

SpecFacility == InitFacility /\ [][NextFacility]_vars

\* a pool of sessions that is referenced and released
NextMongo ==
    \/ Ref
    \/ \E id \in SessionIds : UnRef(id)

InitMongo ==
    /\ \E sessionNum \in 1..MaxSessions : sessions = DialWithTimeout(sessionNum)
    /\ refRet = 0
    /\ ChanrpcIdle /\ ModuleInit /\ SkeletonIdle /\ MeshIdle

SpecMongo == InitMongo /\ [][NextMongo]_vars

\* a registry of Skeleton modules that make async calls to one another and
\* are destroyed
NextMesh ==
    \/ \E m, t \in MeshMods : MeshAsynCall(m, t)
    \/ \E m \in MeshMods : MeshLoop(m)
    \/ MeshDestroy

InitMesh == MeshInit /\ MeshStarted /\ ChanrpcIdle /\ SkeletonIdle /\ MongoIdle

SpecMesh == InitMesh /\ [][NextMesh]_vars

\* the same under a scheduler that lets every loop and the thread of Destroy
\* take the step it is ready to take
SpecMeshFair ==
    /\ SpecMesh
    /\ WF_vars(MeshDestroy)
    /\ \A m \in MeshMods : WF_vars(MeshLoop(m))

----------------------------------------------------------------------------
(* Properties of the chanrpc fabric *)

\* number of times i is in log
Occurrences(log, i) == Cardinality({k \in 1..Len(log) : log[k] = i})

InQueue(c) == \E i \in 1..Len(ChanCall) : ChanCall[i].id = c
Executing(c) == srvCi.id = c
Executed(c) == \E i \in 1..Len(execLog) : execLog[i] = c
\* the async calls whose callback has not been dispatched
Undispatched(S) == {c \in S \cap AsynCallIds : outcome[c] = NoOutcome}

\* C1: a call with a reply queue that was enqueued on ChanCall gets no
\* RetInfo while it is queued or executing and exactly one once Exec or the
\* drain of Close is through with it, never two; a call that was never
\* enqueued gets none from the server.
C1_ExactlyOneRetInfo ==
    \A c \in CallIds :
        /\ Len(replies[c]) <= 1
        /\ c \in enqueued /\ ~InQueue(c) /\ ~Executing(c) => Len(replies[c]) = 1
        /\ InQueue(c) \/ Executing(c) => c \in enqueued /\ replies[c] = <<>>
        /\ c \notin enqueued => replies[c] = <<>>

\* the three ways a call ends, in one run
C1_Witness ==
    \E a, b, c \in CallIds :
        /\ replies[a] = <<Nil>>
        /\ replies[b] = <<ErrPanic>>
        /\ replies[c] = <<ErrClosed>>

\* C2 (as stated): the counter lies in [0, AsynCallLen] and, between the
\* client's operations, equals the number of calls enqueued on a server
\* whose callback has not been dispatched.
C2_AsStated ==
    /\ pendingAsynCall \in 0..asynCap
    /\ cliPc = "idle" =>
          pendingAsynCall = Cardinality(Undispatched(enqueued))

\* C2 (amended): the counter lies in [0, AsynCallLen] and, between the
\* client's operations, equals the number of admitted calls (enqueued on a
\* server, or answered by asynCall's synthetic error reply) whose callback
\* has not been dispatched; inside AsynCall it is one behind.
C2_OutstandingCounter ==
    /\ pendingAsynCall \in 0..asynCap
    /\ cliPc = "idle" => pendingAsynCall = Cardinality(Undispatched(admitted))
    /\ cliPc = "inc" => pendingAsynCall + 1 = Cardinality(Undispatched(admitted))

\* the counter at capacity while it counts a call that never reached the server
C2_Witness ==
    /\ cliPc = "idle"
    /\ asynCap >= 1
    /\ pendingAsynCall = asynCap
    /\ Undispatched(admitted) \ enqueued # {}

\* C5: an AsynCall made while the counter is at capacity runs its callback
\* inline with too-many-calls, leaves the call queue, the async-reply queue
\* and the counter as they were, and the calls admitted earlier still get
\* the reply their server posted.
C5_RejectedAtCapacity ==
    /\ [][\A k \in 1..MaxAsynCalls :
            (nextAsyn = k - 1 /\ nextAsyn' = k /\ pendingAsynCall = asynCap) =>
                /\ <<"a", k>> \in inline'
                /\ outcome'[<<"a", k>>] = [ret |-> <<>>, err |-> ErrTooMany]
                /\ cliPc' = "idle"
                /\ UNCHANGED <<ChanCall, ChanAsynRet, srvCi, srvPc, pendingAsynCall,
                               enqueued, admitted>>
                /\ \A c \in CallIds \ {<<"a", k>>} : outcome'[c] = outcome[c]]_vars
    /\ [](\A c \in enqueued \cap AsynCallIds :
            outcome[c] # NoOutcome =>
                /\ c \notin inline
                /\ replies[c] = <<outcome[c].err>>
                /\ outcome[c].err \in {Nil, ErrPanic, ErrClosed})

\* a call rejected at a capacity of at least one, before the callback of a
\* call admitted earlier ran with its handler's result
C5_Witness ==
    \E i, j \in 1..Len(cbLog) :
        /\ i < j
        /\ asynCap >= 1
        /\ cbLog[i] \in inline
        /\ cbLog[j] \in enqueued
        /\ cbLog[j][2] < cbLog[i][2]
        /\ outcome[cbLog[j]] = [ret |-> <<2>>, err |-> Nil]

\* C6: a handler panic never leaves Exec; the synchronous caller whose
\* handler panicked gets the panic value as its error, its reply is there
\* as soon as Exec is through, and every synchronous call executed by a
\* handler that does not panic, also after a panic, returns the handler's
\* result.
C6_PanicIsAnswered ==
    /\ srvPc # "crashed"
    /\ \A j \in SyncCallers :
        LET c == <<"s", j>> IN
        /\ syncPc[j] = "waiting" /\ Executed(c) => chanSyncRet[j] # <<>>
        /\ Executed(c) => ran[c] = 1
        /\ syncPc[j] = "done" /\ Executed(c) =>
              IF HandlerPanics(syncCi[j])
              THEN outcome[c] = [ret |-> <<>>, err |-> ErrPanic]
              ELSE outcome[c] = [ret |-> Handler(syncCi[j]), err |-> Nil]

\* a synchronous call answered with the panic value, and a later one
\* executed normally
C6_Witness ==
    \E i, j \in 1..Len(execLog) :
        /\ i < j
        /\ execLog[i][1] = "s" /\ execLog[j][1] = "s"
        /\ outcome[execLog[i]].err = ErrPanic
        /\ outcome[execLog[j]] = [ret |-> <<2>>, err |-> Nil]

\* C7: Close closes the queue before it drains it; a call that was queued at
\* that moment is never executed and, once the drain has passed it, has the
\* server-closed error as its only reply; when Close has returned the queue
\* is empty.
C7_CloseDrains ==
    /\ srvPc \in {"drain", "closed"} => chanCallClosed
    /\ srvPc = "closed" => ChanCall = <<>>
    /\ \A c \in atClose :
        /\ ran[c] = 0
        /\ ~Executed(c)
        /\ ~InQueue(c) => replies[c] = <<ErrClosed>>

\* Close has returned after draining a queue that was not empty
C7_Witness ==
    /\ srvPc = "closed"
    /\ atClose # {}
    /\ \A c \in atClose : replies[c] = <<ErrClosed>>

\* C8: no synchronous caller is left waiting by Close: a caller is blocked
\* sending only while the queue is open, a caller waiting for its reply has
\* the reply or its call is still queued or executing, and once Close has
\* returned every caller that is waiting has its reply; the callers that
\* were blocked at the close, queued at the close or called after it return
\* an error.
C8_NoDeadlockOnClose ==
    \A j \in SyncCallers :
        LET c == <<"s", j>> IN
        /\ syncPc[j] = "sending" => ~chanCallClosed
        /\ syncPc[j] = "waiting" => InQueue(c) \/ Executing(c) \/ chanSyncRet[j] # <<>>
        /\ srvPc = "closed" /\ syncPc[j] = "waiting" => chanSyncRet[j] # <<>>
        /\ j \in blockedAtClose =>
              syncPc[j] = "done" /\ outcome[c].err = ErrSendClosed
        /\ syncPc[j] = "done" /\ c \in atClose => outcome[c].err = ErrClosed
        /\ syncPc[j] = "done" /\ c \notin enqueued =>
              outcome[c].err # Nil /\ ran[c] = 0

\* one caller was blocked sending at the close and another was queued, and
\* both have returned
C8_Witness ==
    \E j, k \in SyncCallers :
        /\ j \in blockedAtClose
        /\ <<"s", k>> \in atClose
        /\ syncPc[j] = "done" /\ syncPc[k] = "done"
        /\ outcome[<<"s", k>>].err = ErrClosed

\* C12: a Register fails with invalid-definition exactly when the function
\* is of none of the three kinds, with already-registered exactly when it
\* is of one of them and the id is in the table; a failed Register leaves
\* the table as it was, a successful one adds the id and nothing else, and
\* none touches the call queue.
C12_Register ==
    [][Len(regLog') = Len(regLog) + 1 =>
        LET e == regLog'[Len(regLog')] IN
        /\ (e.err = ErrInvalid) <=> (e.f \notin Kinds)
        /\ (e.err = ErrRegistered) <=> (e.f \in Kinds /\ functions[e.id] # Nil)
        /\ e.err \in {ErrInvalid, ErrRegistered, Nil}
        /\ e.err # Nil => functions' = functions
        /\ e.err = Nil => functions' = [functions EXCEPT ![e.id] = e.f]
        /\ UNCHANGED <<ChanCall, chanCallCap, chanCallClosed, srvCi, enqLog>>]_vars

\* with a call in the queue, a Register of an id that is in the table with
\* another function has failed, and so has one of an invalid function
C12_Witness ==
    /\ ChanCall # <<>>
    /\ \E k \in 1..Len(regLog) :
          /\ regLog[k].err = ErrRegistered
          /\ functions[regLog[k].id] \in Kinds \ {regLog[k].f}
    /\ \E k \in 1..Len(regLog) : regLog[k].err = ErrInvalid

\* the Call1 of caller j on a K1 handler that does not panic
IsCall1(j) ==
    /\ syncCi[j].chanRet = "sync"
    /\ syncCi[j].cb = 1
    /\ syncCi[j].f = "K1"
    /\ ~HandlerPanics(syncCi[j])

\* C13: a Call1 on a K1 handler that does not panic: the handler is invoked
\* on the CallInfo the caller sent, at most once, exactly once when Exec is
\* through with the call, and the caller then returns (f(args), nil); it
\* returns a nil error in no other way.
C13_Call1 ==
    \A j \in SyncCallers :
        LET c == <<"s", j>> IN
        IsCall1(j) =>
            /\ Executing(c) => srvCi = syncCi[j]
            /\ ran[c] = (IF Executed(c) THEN 1 ELSE 0)
            /\ syncPc[j] = "done" /\ Executed(c) =>
                  outcome[c] = [ret |-> Handler(syncCi[j]), err |-> Nil]
            /\ syncPc[j] = "done" /\ outcome[c].err = Nil => Executed(c)

\* two Call1 with different arguments have returned their handler's results
C13_Witness ==
    /\ IsCall1(1) /\ IsCall1(2)
    /\ syncPc[1] = "done" /\ syncPc[2] = "done"
    /\ outcome[<<"s", 1>>] = [ret |-> <<2>>, err |-> Nil]
    /\ outcome[<<"s", 2>>] = [ret |-> <<4>>, err |-> Nil]

LookupErrors == {ErrNotAttached, ErrNotRegistered, ErrMismatch}

\* the kind Call0, Call1 and CallN require
KindOf(n) == CASE n = 0 -> "K0" [] n = 1 -> "K1" [] n = 2 -> "KN"

\* the error the claim expects of a call <<server, id, n, argument>>
ExpectedError(in) ==
    IF in[1] = Nil THEN ErrNotAttached
    ELSE IF functions[in[2]] = Nil THEN ErrNotRegistered
    ELSE IF functions[in[2]] # KindOf(in[3]) THEN ErrMismatch
    ELSE Nil

\* C16: a Call0 / Call1 / CallN without a server, of an id that is not
\* registered or of a function of another kind returns that error at once
\* and leaves the call queue, the function table and the server's loop as
\* they were; any other call returns none of the three errors; a call that
\* returned one of them was never enqueued, never ran and got no RetInfo.
C16_LookupErrors ==
    /\ [][\A j \in SyncCallers, in \in CallInputs :
            SyncCall(j, in) =>
                IF ExpectedError(in) # Nil
                THEN /\ syncPc'[j] = "done"
                     /\ outcome'[<<"s", j>>] = [ret |-> <<>>, err |-> ExpectedError(in)]
                     /\ UNCHANGED <<ChanCall, functions, srvPc, srvCi, enqueued, enqLog,
                                    ran, replies, execLog, chanSyncRet>>
                ELSE outcome'[<<"s", j>>].err \notin LookupErrors]_vars
    /\ [](\A j \in SyncCallers :
            outcome[<<"s", j>>].err \in LookupErrors =>
                /\ syncPc[j] = "done"
                /\ <<"s", j>> \notin enqueued
                /\ ~InQueue(<<"s", j>>)
                /\ ran[<<"s", j>>] = 0
                /\ replies[<<"s", j>>] = <<>>)

\* one call returned return-type-mismatch and the other not-registered
\* while the server was executing nothing and its queue was empty
C16_Witness ==
    /\ outcome[<<"s", 1>>].err = ErrMismatch
    /\ outcome[<<"s", 2>>].err = ErrNotRegistered
    /\ ChanCall = <<>>
    /\ execLog = <<>>

\* caller j called Server.Go and its CallInfo was built
IsGo(j) == syncCi[j] # NoCall /\ syncCi[j].chanRet = Nil

\* C17: a Go of an id that is not in the table returns at once and leaves
\* the call queue and the server's loop as they were; a Go of a known id
\* builds one CallInfo without reply queue and without callback, which is
\* enqueued at most once; its handler runs at most once and no RetInfo is
\* ever posted for it; a call that was queued when the server closed, or
\* whose sender was blocked then, is never executed; no panic leaves Go.
C17_Go ==
    /\ [][\A j \in SyncCallers, in \in GoInputs :
            ServerGo(j, in) =>
                IF functions[in[1]] = Nil
                THEN /\ syncPc'[j] = "done"
                     /\ UNCHANGED <<ChanCall, srvPc, srvCi, enqLog, syncCi>>
                ELSE /\ syncCi'[j] = [id |-> <<"s", j>>, f |-> functions[in[1]],
                                       arg |-> in[2], chanRet |-> Nil, cb |-> Nil]
                     /\ \/ ChanCall' = Append(ChanCall, syncCi'[j]) /\ syncPc'[j] = "done"
                        \/ ChanCall' = ChanCall /\ syncPc'[j] \in {"sending", "done"}]_vars
    /\ [](\A j \in SyncCallers :
            LET c == <<"s", j>> IN
            /\ syncPc[j] # "panicked"
            /\ IsGo(j) =>
                  /\ syncPc[j] \in {"sending", "done"}
                  /\ ran[c] <= 1
                  /\ Occurrences(enqLog, c) <= 1
                  /\ ran[c] = 1 => c \in enqueued
                  /\ replies[c] = <<>>
                  /\ chanSyncRet[j] = <<>>
                  /\ outcome[c] = NoOutcome
                  /\ c \in atClose => ran[c] = 0
                  /\ j \in blockedAtClose =>
                        syncPc[j] = "done" /\ ran[c] = 0 /\ c \notin enqueued)

\* the server has closed with the call of one Go in its queue and the
\* sender of another blocked, and both Go have returned
C17_Witness ==
    \E j, k \in SyncCallers :
        /\ IsGo(j) /\ IsGo(k)
        /\ <<"s", j>> \in atClose
        /\ k \in blockedAtClose
        /\ srvPc = "closed"
        /\ syncPc[j] = "done" /\ syncPc[k] = "done"

\* the server an AsynCall <<server, id, n, argument>> goes to: the one it
\* attaches, or the one the client is attached to
AsynServer(in) == IF in[1] = Nil THEN c_s ELSE in[1]

\* the errors of an admitted call that was not enqueued
UndeliveredErrors == LookupErrors \cup {ErrFull, ErrSendClosed}

\* the RetInfos of call c in the client's async-reply queue
InAsynRet(c) == {i \in 1..Len(ChanAsynRet) : ChanAsynRet[i].id = c}

\* C15: an admitted AsynCall whose lookup fails (no server, id not
\* registered, kind mismatch) or whose send fails (queue full or closed)
\* appends one RetInfo with that error and its callback to the client's own
\* async-reply queue and runs no callback; every other admitted AsynCall
\* hands its CallInfo to the server and pushes nothing.  The callback of a
\* call that was not delivered runs once, when Cb takes that RetInfo from
\* the queue, with the error the RetInfo carries, and the server has
\* neither run nor answered the call.
C15_SyntheticReply ==
    /\ [][\A in \in CallInputs :
            AsynCall(in) /\ ~tooManyCalls(pendingAsynCall, asynCap) =>
                LET cid == <<"a", nextAsyn + 1>>
                    e == ExpectedError(<<AsynServer(in), in[2], in[3], in[4]>>)
                    pushed(err) == ChanAsynRet' = Append(ChanAsynRet,
                                      [id |-> cid, ret |-> <<>>, err |-> err, cb |-> in[3]])
                IN
                /\ cid \in admitted' /\ cid \notin inline'
                /\ outcome'[cid] = NoOutcome /\ cbLog' = cbLog
                /\ IF e # Nil
                   THEN pushed(e) /\ UNCHANGED <<ChanCall, srvPc, srvCi, enqLog>>
                   ELSE \/ /\ cid \in enqueued'
                           /\ ChanAsynRet' = ChanAsynRet
                           /\ ~chanCallClosed
                        \/ /\ pushed(ErrSendClosed) /\ chanCallClosed
                           /\ UNCHANGED <<ChanCall, srvPc, srvCi, enqLog>>
                        \/ /\ pushed(ErrFull) /\ ~chanCallClosed
                           /\ Len(ChanCall) = chanCallCap
                           /\ UNCHANGED <<ChanCall, srvPc, srvCi, enqLog>>]_vars
    /\ [][ChanAsynRet # <<>> /\ ChanAsynRet' = Tail(ChanAsynRet) =>
            /\ cbLog' = Append(cbLog, Head(ChanAsynRet).id)
            /\ outcome'[Head(ChanAsynRet).id].err = Head(ChanAsynRet).err]_vars
    /\ [](\A c \in admitted \ enqueued :
            /\ c \notin inline
            /\ replies[c] = <<>> /\ ran[c] = 0
            /\ IF outcome[c] = NoOutcome
               THEN /\ Cardinality(InAsynRet(c)) = 1
                    /\ Occurrences(cbLog, c) = 0
                    /\ \A i \in InAsynRet(c) : ChanAsynRet[i].err \in UndeliveredErrors
               ELSE /\ InAsynRet(c) = {}
                    /\ Occurrences(cbLog, c) = 1
                    /\ outcome[c].err \in UndeliveredErrors
                    /\ outcome[c].ret = <<>>)

\* the callbacks of two calls that were not delivered, one for a full
\* queue and one for a lookup error, have run through Cb
C15_Witness ==
    \E a, b \in admitted \ enqueued :
        /\ outcome[a].err = ErrFull
        /\ outcome[b].err \in LookupErrors
        /\ Occurrences(cbLog, a) = 1 /\ Occurrences(cbLog, b) = 1

\* a is the beginning of b
IsPrefix(a, b) == Len(a) <= Len(b) /\ a = SubSeq(b, 1, Len(a))

\* the elements of log that are in S, in their order
Only(log, S) == SelectSeq(log, LAMBDA x : x \in S)

\* C18: the server executes the calls in the order in which they were
\* enqueued (the calls it executed are the first that were enqueued), and
\* the callbacks of the async calls that were enqueued run in the order in
\* which these calls were enqueued, which is the order in which the server
\* posts their RetInfos: the callbacks that ran, followed by the RetInfos
\* waiting in the client's queue, are the first async calls enqueued.
C18_Order ==
    /\ IsPrefix(execLog, enqLog)
    /\ IsPrefix(Only(cbLog \o [i \in 1..Len(ChanAsynRet) |-> ChanAsynRet[i].id], enqueued),
                Only(enqLog, AsynCallIds))

\* two async calls were enqueued; the callback of the first has run while
\* the RetInfo of the second, posted after it, waits in the queue
C18_Witness ==
    /\ enqLog = << <<"a", 1>>, <<"a", 2>> >>
    /\ execLog = enqLog
    /\ cbLog = << <<"a", 1>> >>
    /\ Len(ChanAsynRet) = 1
    /\ ChanAsynRet[1].id = <<"a", 2>>
    /\ pendingAsynCall = 1

\* C20: when Close has returned the counter is 0, Idle() is true, the
\* async-reply queue is empty and the callback of every admitted call has
\* run exactly once; no callback ever runs twice; while Close runs the
\* counter plus the number of RetInfos it has dispatched stays what it was;
\* and between the client's operations Idle() is true exactly when no
\* admitted call waits for its callback.
C20_CloseDrains ==
    /\ cliPc = "closed" =>
          /\ pendingAsynCall = 0
          /\ Idle(pendingAsynCall)
          /\ ChanAsynRet = <<>>
          /\ \A c \in admitted : Occurrences(cbLog, c) = 1
    /\ \A c \in AsynCallIds : Occurrences(cbLog, c) <= 1
    /\ cliPc \in {"closing", "closed"} =>
          pendingAsynCall + closeCbs = Cardinality(admitted) - (Len(cbLog) - closeCbs - Cardinality(inline))
    /\ cliPc # "inc" => (Idle(pendingAsynCall) <=> Undispatched(admitted) = {})

\* Close has returned after dispatching the replies of two outstanding calls
C20_Witness ==
    /\ cliPc = "closed"
    /\ closeCbs = 2
    /\ Cardinality(admitted) = 2

\* number of the client's calls a server holds: in ChanCall or in Exec
Held ==
    Cardinality({i \in 1..Len(ChanCall) : ChanCall[i].chanRet = "asyn"})
      + (IF srvPc = "exec" /\ srvCi.chanRet = "asyn" THEN 1 ELSE 0)

\* C21 (as stated): in every state the RetInfos in the async-reply queue
\* plus the client's calls held by the server are at most the counter, which
\* is at most the capacity of the queue.
C21_AsStated ==
    /\ Len(ChanAsynRet) + Held <= pendingAsynCall
    /\ pendingAsynCall <= asynCap

\* C21 (amended): the RetInfos in the async-reply queue plus the client's
\* calls held by the server are at most the counter, and inside AsynCall,
\* between the return of asynCall and the increment, at most the counter
\* plus one; either bound is at most the capacity of the queue, so the
\* synthetic reply of an admitted call, the reply of Exec and the reply of
\* the drain of Close each find a free slot.
C21_NeverSuspends ==
    /\ Len(ChanAsynRet) + Held <= pendingAsynCall + (IF cliPc = "inc" THEN 1 ELSE 0)
    /\ pendingAsynCall + (IF cliPc = "inc" THEN 1 ELSE 0) <= asynCap
    /\ cliPc = "idle" /\ ~tooManyCalls(pendingAsynCall, asynCap) => Len(ChanAsynRet) < asynCap
    /\ srvPc = "exec" /\ srvCi.chanRet = "asyn" =>
          Len(ChanAsynRet) + Len(exec(srvCi).post) <= asynCap
    /\ srvPc = "drain" /\ Head(ChanCall).chanRet = "asyn" =>
          Len(ChanAsynRet) + Len(closeRet(Head(ChanCall))) <= asynCap

\* inside AsynCall, before the increment, the async-reply queue is full and
\* holds a reply the server posted and a synthetic reply
C21_Witness ==
    /\ cliPc = "inc"
    /\ asynCap = MaxClientLen
    /\ Len(ChanAsynRet) = asynCap
    /\ pendingAsynCall = asynCap - 1
    /\ \E i \in 1..Len(ChanAsynRet) : ChanAsynRet[i].id \in enqueued
    /\ \E i \in 1..Len(ChanAsynRet) : ChanAsynRet[i].id \notin enqueued

\* C23: Cb takes one from the counter before the callback runs and nothing
\* after it, so that while the callback runs and after it has returned or
\* panicked the counter is the number of admitted calls not yet dispatched;
\* the panic of a callback does not leave Cb; and the first AsynCall made by
\* a callback that Cb was given at capacity is admitted.
C23_CbDecrementsFirst ==
    /\ [](cliPc # "cbPanic")
    /\ [](cliPc = "idle" => pendingAsynCall = Cardinality(Undispatched(admitted)))
    /\ [][CbStart => pendingAsynCall' = pendingAsynCall - 1]_vars
    /\ [][\A panics \in BOOLEAN :
            CbReturn(panics) => pendingAsynCall' = pendingAsynCall /\ cliPc' = "idle"]_vars
    /\ [][\A in \in CallInputs :
            (cbRun.running /\ cbRun.atCap /\ nextAsyn = cbRun.next /\ AsynCall(in)) =>
                /\ <<"a", nextAsyn'>> \in admitted'
                /\ <<"a", nextAsyn'>> \notin inline']_vars

\* a callback that Cb was given at capacity made a call, which was admitted,
\* and panicked: the counter counts the new call only
C23_Witness ==
    /\ ~cbRun.running
    /\ cbRun.atCap
    /\ cbRun.panicked
    /\ cliPc = "idle"
    /\ nextAsyn = cbRun.next + 1
    /\ <<"a", nextAsyn>> \in admitted \ inline
    /\ pendingAsynCall = asynCap

----------------------------------------------------------------------------
(* Properties of the module manager *)

\* C3: OnDestroy runs in the reverse of the registration order, each
\* module's closeSig is sent at most one value, exactly one by the time its
\* OnDestroy runs, and OnDestroy of a module runs only after its Run has
\* returned.
C3_ReverseTeardown ==
    /\ \A k \in 1..Len(destroyLog) : destroyLog[k] = numMods - k + 1
    /\ \A i \in Modules :
        /\ sentSig[i] <= 1
        /\ Occurrences(destroyLog, i) > 0 => sentSig[i] = 1 /\ runPc[i] = "returned"
        /\ mgrPc = "done" /\ i <= numMods => sentSig[i] = 1

\* Destroy has returned for a full registry
C3_Witness ==
    /\ mgrPc = "done"
    /\ numMods = MaxModules
    /\ Len(destroyLog) = numMods

\* C4: a panic of an OnDestroy never leaves Destroy, and when Destroy has
\* returned the OnDestroy of every registered module has been invoked
\* exactly once, whichever of them panicked.
C4_DestroyIsolatesPanics ==
    /\ mgrPc # "destroyPanic"
    /\ \A i \in Modules : Occurrences(destroyLog, i) <= 1
    /\ mgrPc = "done" => \A i \in 1..numMods : Occurrences(destroyLog, i) = 1

\* Destroy has returned although the OnDestroy of the module destroyed
\* first panicked
C4_Witness ==
    /\ mgrPc = "done"
    /\ numMods >= 2
    /\ numMods \in destroyPanics
    /\ \A i \in 1..numMods : Occurrences(destroyLog, i) = 1

\* C11: OnInit runs in registration order, one module after the other; a
\* Run is started only after the OnInit of every registered module has
\* returned; after a panic of an OnInit no Run is started, in that state or
\* any later one.
C11_InitBeforeRun ==
    /\ Len(initLog) <= numMods
    /\ \A k \in 1..Len(initLog) : initLog[k] = k
    /\ mgrPc \in {"launch", "started"} => Len(initLog) = numMods
    /\ (\E i \in Modules : runPc[i] # "none" \/ wg[i] # 0) =>
          /\ Len(initLog) = numMods
          /\ mgrPc \notin {"register", "onInit", "initPanic"}
    /\ mgrPc = "initPanic" => \A i \in Modules : runPc[i] = "none" /\ wg[i] = 0

\* the OnInit of the second of three modules panicked
C11_Witness ==
    /\ mgrPc = "initPanic"
    /\ numMods = MaxModules
    /\ initLog = <<1, 2>>

\* the manager is stuck in the send of a Destroy: the closeSig of the module
\* is full and its Run has returned, so nothing will receive from it
DestroyBlocked ==
    /\ mgrPc = "send"
    /\ closeSig[DestroyOrder(numMods)[mgrK]] = 1
    /\ runPc[DestroyOrder(numMods)[mgrK]] = "returned"

\* C14 (as stated): a Destroy after a Destroy that returned invokes no
\* OnDestroy again, sends no closeSig again and does not block.
C14_SecondDestroyIsNoOp ==
    destroyCalls >= 2 =>
        /\ \A i \in Modules : Occurrences(destroyLog, i) <= 1
        /\ \A i \in Modules : sentSig[i] <= 1
        /\ ~DestroyBlocked

\* module i is being torn down: its close signal waits for its Run, its Run
\* has received it and has not returned, or Destroy is at it
TearingDown(i) ==
    \/ closeSig[i] > 0 /\ runPc[i] = "running"
    \/ runPc[i] = "closing"
    \/ mgrPc \in {"wait", "destroy"} /\ DestroyOrder(numMods)[mgrK] = i

\* C22: while a module is being torn down (its close signal sent, its Run
\* shutting down, its OnDestroy running) no module registered before it has
\* been sent a close signal or had OnDestroy called; a module is sent its
\* close signal only after OnDestroy of every later module has finished.
C22_DependenciesAlive ==
    \A i \in 1..numMods : \A j \in 1..(i - 1) :
        /\ TearingDown(i) => sentSig[j] = 0 /\ Occurrences(destroyLog, j) = 0
        /\ sentSig[j] > 0 =>
              /\ Occurrences(destroyLog, i) = 1
              /\ ~(mgrPc = "destroy" /\ DestroyOrder(numMods)[mgrK] = i)
              /\ runPc[i] = "returned"

\* of three modules the last is destroyed, the second has received its close
\* signal and is shutting down, the first is running and has been sent nothing
C22_Witness ==
    /\ numMods = 3
    /\ destroyLog = <<3>>
    /\ mgrPc = "wait"
    /\ runPc[2] = "closing"
    /\ runPc[1] = "running"
    /\ sentSig[1] = 0

----------------------------------------------------------------------------
(* Properties of the MongoDB session pool *)

\* the smallest reference count of the pool
MinRef(h) == CHOOSE r \in {h[i].ref : i \in DOMAIN h} : \A i \in DOMAIN h : r <= h[i].ref

\* C24: the heap holds every session of the pool once; no session is above
\* a session with a smaller reference count; the index of every session is
\* its position; no reference count is negative; and a Ref returns a session
\* whose count was the smallest of the pool and adds one to the count of
\* that session and of no other.
C24_SessionHeap ==
    /\ [](LET n == Cardinality(DOMAIN sessions) IN
            /\ DOMAIN sessions = 0..(n - 1)
            /\ {sessions[i].id : i \in DOMAIN sessions} = 1..n
            /\ \A i \in 1..(n - 1) : sessions[(i - 1) \div 2].ref <= sessions[i].ref
            /\ \A i \in DOMAIN sessions : sessions[i].index = i
            /\ \A i \in DOMAIN sessions : sessions[i].ref >= 0)
    /\ [][Ref =>
            /\ SessionOf(sessions, refRet').ref = MinRef(sessions)
            /\ \A id \in 1..Cardinality(DOMAIN sessions) :
                  SessionOf(sessions', id).ref =
                    SessionOf(sessions, id).ref + (IF id = refRet' THEN 1 ELSE 0)]_vars

\* a full pool in which references were taken and released unevenly: the
\* session at the root has one reference, another has more, and the session
\* that started at the root is no longer there
C24_Witness ==
    /\ Cardinality(DOMAIN sessions) = MaxSessions
    /\ sessions[0].ref = 1
    /\ sessions[0].id # 1
    /\ \E i \in DOMAIN sessions : sessions[i].ref >= 2
    /\ refRet # 0

----------------------------------------------------------------------------
(* Properties of the Skeleton loop *)

\* C25: once Destroy has been called it returns: every module's Run has
\* returned with no async call outstanding.
C25_DestroyReturns ==
    (destroyCalls > 0) ~>
        /\ mgrPc = "done"
        /\ \A m \in MeshMods : mPc[m] = "returned" /\ mPending[m] = 0

\* Destroy has returned; each module had an async call outstanding when it
\* received its close signal; the call of the last module was answered by
\* the running first module, calls of the first module were answered by the
\* drain of the closed server and by send-on-closed
C25_Witness ==
    /\ mgrPc = "done"
    /\ \A m \in MeshMods : mAtClose[m] > 0
    /\ "exec" \in mAnswers[2]
    /\ {"drain", "sendClosed"} \subseteq mAnswers[1]

PublicOps == {"AfterFunc", "CronFunc", "Go", "NewLinearContext", "AsynCall", "RegisterChanRPC"}

\* the facility of a public operation is enabled: its configured length is
\* positive, an RPC server was given
FacilityOn(op) ==
    CASE op \in {"AfterFunc", "CronFunc"} -> skConf.TimerDispatcherLen > 0
      [] op \in {"Go", "NewLinearContext"} -> skConf.GoLen > 0
      [] op = "AsynCall" -> skConf.AsynCallLen > 0
      [] op = "RegisterChanRPC" -> skChanRPCServer # Nil

\* the step is a call of the public operation op
Calls(op) ==
    CASE op = "AfterFunc" -> SkAfterFunc
      [] op = "CronFunc" -> SkCronFunc
      [] op = "Go" -> SkGo
      [] op = "NewLinearContext" -> SkNewLinearContext
      [] op = "AsynCall" -> \E ok \in BOOLEAN : SkAsynCall(ok)
      [] op = "RegisterChanRPC" -> \E in \in RegisterInputs : SkRegisterChanRPC(in)

\* C19: after Init every length is its configured value when that is
\* positive and 0 otherwise; a public operation panics exactly when its
\* facility is disabled, and then it leaves the pool, the timers, the client
\* and the servers as they were; with the facility enabled it is forwarded
\* (Go gives the pool one more job).
C19_FailFast ==
    /\ [](skPc # "new" =>
            /\ skGoLen = (IF skConf.GoLen > 0 THEN skConf.GoLen ELSE 0)
            /\ skTimerLen = (IF skConf.TimerDispatcherLen > 0 THEN skConf.TimerDispatcherLen ELSE 0)
            /\ skAsynCap = (IF skConf.AsynCallLen > 0 THEN skConf.AsynCallLen ELSE 0))
    /\ [](\A c \in skCalls : (c[2] = Forwarded) <=> FacilityOn(c[1]))
    /\ [][\A op \in PublicOps :
            Calls(op) =>
              IF FacilityOn(op)
              THEN /\ <<op, Forwarded>> \in skCalls'
                   /\ op = "Go" => skJobs' = skJobs + 1
              ELSE /\ \E c \in skCalls' : c[1] = op /\ c[2] # Forwarded
                   /\ UNCHANGED <<skServers, skClient, skPool, skTimer, functions>>]_vars

\* a Skeleton configured with a negative GoLen, a positive AsynCallLen and
\* no RPC server: Go and RegisterChanRPC have panicked, AsynCall was forwarded
C19_Witness ==
    /\ skConf.GoLen < 0
    /\ skConf.AsynCallLen > 0
    /\ skChanRPCServer = Nil
    /\ {<<"Go", "invalid GoLen">>, <<"RegisterChanRPC", "invalid ChanRPCServer">>,
         <<"AsynCall", Forwarded>>} \subseteq skCalls
    /\ skPending = 1

TeardownPcs == {"closeCmd", "closeSrv", "check", "gClose", "cliClose", "returned"}

\* C9: at most one handler of the Skeleton is executing in any state, and
\* while one is executing Run is inside it, not selecting the next.
C9_OneHandlerAtATime ==
    /\ Cardinality(running) <= 1
    /\ running # {} => skPc = "handler"

\* every kind of handler has been called, and one is executing
C9_Witness ==
    /\ ranKinds = HandlerKinds
    /\ running # {}

\* C10: after closeSig Run closes the command server, then the RPC server,
\* and returns only with the pool idle and the client's counter at 0; no
\* RPC or command handler is called after closeSig, the calls that were
\* queued are answered with server-closed.
C10_Teardown ==
    /\ gotClose <=> (skPc \in TeardownPcs \/ (skPc = "handler" /\ skBack # "select"))
    /\ gotClose /\ skPc # "closeCmd" => inClosed["cmd"]
    /\ gotClose /\ skPc \notin {"closeCmd", "closeSrv"} => inClosed["rpc"]
    /\ inClosed["rpc"] => inClosed["cmd"]
    /\ skPc = "returned" =>
          /\ skPending = 0
          /\ GoIdle
          /\ running = {}
          /\ \A s \in Servers : inQ[s] = 0 /\ inBlocked[s] = 0
    /\ ~lateExec
    /\ \A s \in Servers :
          /\ skPosted[s] \subseteq {Nil, ErrClosed}
          /\ ErrClosed \in skPosted[s] => inClosed[s]

\* Run has returned after a teardown that ran two callbacks and answered a
\* queued call with server-closed, in a run whose handlers used the pool
\* and the client
C10_Witness ==
    /\ skPc = "returned"
    /\ lateCbs >= 2
    /\ {"goCb", "asynCb"} \subseteq ranKinds
    /\ ErrClosed \in skPosted["rpc"]

====
